---------------------------- MODULE Spec2Model ----------------------------
(***************************************************************************)
(* A model of the transcript pipeline of Test_Case_Generator:              *)
(*   src/src/transcript_parser.py  (segmentation and field extraction)     *)
(*   src/src/data_cleaner.py       (field normalisation)                   *)
(*   src/src/pii_masker.py         (PII masking)                           *)
(*   src/web_app/app.py, app_fixed.py, app_enhanced.py (the routes that    *)
(*   hand transcripts to the LLM test-case generator)                      *)
(*                                                                         *)
(* Text is modelled character by character: a Python str is a sequence of  *)
(* one-character strings.  The regular expressions of the source are       *)
(* written as syntax trees and evaluated by a backtracking matcher that    *)
(* follows the semantics of Python's re module (leftmost match, greedy and *)
(* lazy repetition, ordered alternation, \b, $, lookahead, IGNORECASE,     *)
(* DOTALL, MULTILINE).                                                     *)
(***************************************************************************)
EXTENDS Integers, Sequences, FiniteSets, TLC

(***************************************************************************)
(* Characters                                                              *)
(***************************************************************************)
LowerL == << "a","b","c","d","e","f","g","h","i","j","k","l","m",
             "n","o","p","q","r","s","t","u","v","w","x","y","z" >>
UpperL == << "A","B","C","D","E","F","G","H","I","J","K","L","M",
             "N","O","P","Q","R","S","T","U","V","W","X","Y","Z" >>
Range(q) == { q[k] : k \in 1..Len(q) }
Lower == Range(LowerL)
Upper == Range(UpperL)
Alpha == Lower \cup Upper
Digit == { "0","1","2","3","4","5","6","7","8","9" }
AlNum == Alpha \cup Digit
\* \w and \s of Python's re for the characters the model uses
WordChars == AlNum \cup { "_" }
Space == { " ", "\n", "\t" }

LowerOf == [ c \in Upper |-> LowerL[CHOOSE k \in 1..26 : UpperL[k] = c] ]
UpperOf == [ c \in Lower |-> UpperL[CHOOSE k \in 1..26 : LowerL[k] = c] ]
ToLower(c) == IF c \in Upper THEN LowerOf[c] ELSE c
ToUpper(c) == IF c \in Lower THEN UpperOf[c] ELSE c
SwapCase(c) == IF c \in Upper THEN LowerOf[c] ELSE IF c \in Lower THEN UpperOf[c] ELSE c

\* v = <value>; <the rest, Do, with v>: Python evaluates a statement before the
\* next one
Then(v, Do(_)) == IF v = v THEN Do(v) ELSE Do(v)

Min(a, b) == IF a <= b THEN a ELSE b
Max(a, b) == IF a >= b THEN a ELSE b

(***************************************************************************)
(* str methods                                                             *)
(***************************************************************************)
\* str.lower() and str.upper()
StrLower(s) == [ k \in 1..Len(s) |-> ToLower(s[k]) ]
StrUpper(s) == [ k \in 1..Len(s) |-> ToUpper(s[k]) ]

\* sub in s
Contains(s, sub) ==
    \E p \in 1..(Len(s) - Len(sub) + 1) : \A k \in 1..Len(sub) : s[p + k - 1] = sub[k]

\* s.strip(): leading and trailing whitespace removed
Strip(s) ==
    LET ns == { k \in 1..Len(s) : s[k] \notin Space }
    IN  IF ns = {} THEN << >>
        ELSE LET a == CHOOSE k \in ns : \A j \in 1..(k - 1) : s[j] \in Space
                 b == CHOOSE k \in ns : \A j \in (k + 1)..Len(s) : s[j] \in Space
             IN  SubSeq(s, a, b)

\* s.title(): the first letter of every run of letters upper-cased, the rest lower-cased
StrTitle(s) ==
    [ k \in 1..Len(s) |->
        IF k > 1 /\ s[k - 1] \in Alpha THEN ToLower(s[k]) ELSE ToUpper(s[k]) ]

(***************************************************************************)
(* Regular expressions: syntax trees                                       *)
(***************************************************************************)
\* one character of the set S / not of the set S
Set(S) == [ t |-> "set", neg |-> FALSE, s |-> S ]
NotSet(S) == [ t |-> "set", neg |-> TRUE, s |-> S ]
\* . (any character; a newline only under DOTALL)
AnyChar == [ t |-> "any" ]
\* a literal string
Lit(cs) == [ t |-> "lit", cs |-> cs ]
\* r1 r2 ... rn
Cat(rs) == [ t |-> "cat", rs |-> rs ]
\* r1 | r2 | ... | rn
Alt(rs) == [ t |-> "alt", rs |-> rs ]
\* x{lo,hi} for a one-character x (hi = -1: unbounded), greedy or lazy
Rep(x, lo, hi, greedy) == [ t |-> "rep", x |-> x, lo |-> lo, hi |-> hi, greedy |-> greedy ]
Plus(x) == Rep(x, 1, -1, TRUE)
Star(x) == Rep(x, 0, -1, TRUE)
\* r? (greedy)
Opt(r) == [ t |-> "opt", r |-> r ]
\* \b
WB == [ t |-> "wb" ]
\* (?=r)
LookAhead(r) == [ t |-> "la", r |-> r ]
\* $ and ^
Eos == [ t |-> "eos" ]
Bol == [ t |-> "bol" ]

\* the flags of a call: re.IGNORECASE, re.DOTALL, re.MULTILINE
Flags(ic, dotall, multiline) == [ ic |-> ic, dotall |-> dotall, multiline |-> multiline ]
NOFLAGS == Flags(FALSE, FALSE, FALSE)
IGNORECASE == Flags(TRUE, FALSE, FALSE)

(***************************************************************************)
(* Regular expressions: the matcher                                        *)
(*                                                                         *)
(* A position p in 1..Len(s)+1 stands before s[p].  Ends(r, s, p, f) is    *)
(* the sequence of positions at which a match of r that starts at p can    *)
(* end, in the order in which a backtracking matcher tries them, each      *)
(* position listed once; its head is the end of the match re reports.      *)
(***************************************************************************)
\* \b with the underscore taken for a character that is no word character
IsWord_alnum(s, p) == p >= 1 /\ p <= Len(s) /\ s[p] \in AlNum
\* the character at p is one of \w: \b is where this changes
IsWord(s, p) == p >= 1 /\ p <= Len(s) /\ s[p] \in WordChars
AtWordBoundary(s, p) == IsWord(s, p - 1) # IsWord(s, p)

AtEnd(s, p, f) ==
    \/ p = Len(s) + 1
    \/ p = Len(s) /\ s[p] = "\n"
    \/ f.multiline /\ p <= Len(s) /\ s[p] = "\n"

AtStart(s, p, f) == p = 1 \/ (f.multiline /\ p > 1 /\ s[p - 1] = "\n")

OneChar(x, c, f) ==
    IF x.t = "any" THEN f.dotall \/ c # "\n"
    ELSE LET hit == c \in x.s \/ (f.ic /\ SwapCase(c) \in x.s)
         IN  IF x.neg THEN ~hit ELSE hit

LitAt(cs, s, p, f) ==
    /\ p + Len(cs) - 1 <= Len(s)
    /\ \A k \in 1..Len(cs) :
          s[p + k - 1] = cs[k] \/ (f.ic /\ SwapCase(s[p + k - 1]) = cs[k])

\* the first position in lo..hi whose character x does not match; hi + 1 if none
RECURSIVE FirstFail(_, _, _, _, _)
FirstFail(x, s, lo, hi, f) ==
    IF lo > hi THEN hi + 1
    ELSE IF lo = hi THEN (IF OneChar(x, s[lo], f) THEN hi + 1 ELSE lo)
    ELSE LET mid == (lo + hi) \div 2
             l == FirstFail(x, s, lo, mid, f)
         IN  IF l <= mid THEN l ELSE FirstFail(x, s, mid + 1, hi, f)

RepEnds(r, s, p, f) ==
    LET last == IF r.hi < 0 THEN Len(s) ELSE Min(Len(s), p + r.hi - 1)
        n == FirstFail(r.x, s, p, last, f) - p
    IN  IF n < r.lo THEN << >>
        ELSE IF r.greedy THEN [ k \in 1..(n - r.lo + 1) |-> p + n - (k - 1) ]
        ELSE [ k \in 1..(n - r.lo + 1) |-> p + r.lo + (k - 1) ]

\* a followed by the positions of b that a does not hold
Merge(a, b) == IF a = << >> THEN b ELSE a \o SelectSeq(b, LAMBDA e : e \notin Range(a))

RECURSIVE Ends(_, _, _, _)
RECURSIVE EndsFrom(_, _, _, _, _, _)
RECURSIVE EndsAlt(_, _, _, _, _)
RECURSIVE EndsCat(_, _, _, _, _)

\* the ends of r from each of the positions ps[lo..hi], in order
EndsFrom(r, s, ps, lo, hi, f) ==
    IF lo > hi THEN << >>
    ELSE IF lo = hi THEN Ends(r, s, ps[lo], f)
    ELSE LET mid == (lo + hi) \div 2
         IN  Merge(EndsFrom(r, s, ps, lo, mid, f), EndsFrom(r, s, ps, mid + 1, hi, f))

\* the ends of rs[k] rs[k+1] ... started at any of the positions ps
EndsCat(rs, k, s, ps, f) ==
    IF ps = << >> \/ k > Len(rs) THEN ps
    ELSE EndsCat(rs, k + 1, s, EndsFrom(rs[k], s, ps, 1, Len(ps), f), f)

EndsAlt(rs, k, s, p, f) ==
    IF k > Len(rs) THEN << >>
    ELSE Merge(Ends(rs[k], s, p, f), EndsAlt(rs, k + 1, s, p, f))

Ends(r, s, p, f) ==
    CASE r.t = "set" -> IF p <= Len(s) /\ OneChar(r, s[p], f) THEN << p + 1 >> ELSE << >>
      [] r.t = "any" -> IF p <= Len(s) /\ OneChar(r, s[p], f) THEN << p + 1 >> ELSE << >>
      [] r.t = "lit" -> IF LitAt(r.cs, s, p, f) THEN << p + Len(r.cs) >> ELSE << >>
      [] r.t = "cat" -> EndsCat(r.rs, 1, s, << p >>, f)
      [] r.t = "alt" -> EndsAlt(r.rs, 1, s, p, f)
      [] r.t = "rep" -> RepEnds(r, s, p, f)
      [] r.t = "opt" -> Merge(Ends(r.r, s, p, f), << p >>)
      [] r.t = "wb"  -> IF AtWordBoundary(s, p) THEN << p >> ELSE << >>
      [] r.t = "la"  -> IF Ends(r.r, s, p, f) # << >> THEN << p >> ELSE << >>
      [] r.t = "eos" -> IF AtEnd(s, p, f) THEN << p >> ELSE << >>
      [] r.t = "bol" -> IF AtStart(s, p, f) THEN << p >> ELSE << >>

\* a condition that every match of r at p meets, read off the first item of r:
\* the matcher looks at a position more closely only if it holds
RECURSIVE CanStart(_, _, _, _)
CanStart(r, s, p, f) ==
    CASE r.t = "cat" -> r.rs = << >> \/ CanStart(r.rs[1], s, p, f)
      [] r.t = "lit" -> r.cs = << >> \/ (p <= Len(s) /\ OneChar(Set({ r.cs[1] }), s[p], f))
      [] r.t = "wb"  -> AtWordBoundary(s, p)
      [] r.t = "bol" -> AtStart(s, p, f)
      [] r.t = "rep" -> r.lo = 0 \/ (p <= Len(s) /\ OneChar(r.x, s[p], f))
      [] OTHER -> TRUE

\* the first position in lo..hi at which a match of r starts; 0 if none
RECURSIVE FirstStart(_, _, _, _, _)
FirstStart(r, s, lo, hi, f) ==
    IF lo > hi THEN 0
    ELSE IF lo = hi THEN (IF CanStart(r, s, lo, f) /\ Ends(r, s, lo, f) # << >> THEN lo ELSE 0)
    ELSE LET mid == (lo + hi) \div 2
             l == FirstStart(r, s, lo, mid, f)
         IN  IF l # 0 THEN l ELSE FirstStart(r, s, mid + 1, hi, f)

\* the match of r that starts at p: << start, end >>; << 0, 0 >> if p = 0
MatchAt(r, s, p, f) == IF p = 0 THEN << 0, 0 >> ELSE << p, Head(Ends(r, s, p, f)) >>

\* re.search(r, s) from position from on: << start, end >> of the match, << 0, 0 >> if none
SearchFrom(r, s, from, f) == MatchAt(r, s, FirstStart(r, s, from, Len(s) + 1, f), f)

Search(r, s, f) == SearchFrom(r, s, 1, f)

\* the non-overlapping matches of r in s, left to right (none of the patterns of
\* the source matches the empty string)
RECURSIVE FindAllFrom(_, _, _, _)
RECURSIVE FindAllAfter(_, _, _, _)
\* the match m, if it is one, and the matches after it
FindAllAfter(r, s, m, f) ==
    IF m[1] = 0 THEN << >>
    ELSE << m >> \o FindAllFrom(r, s, IF m[2] > m[1] THEN m[2] ELSE m[1] + 1, f)

FindAllFrom(r, s, from, f) == FindAllAfter(r, s, SearchFrom(r, s, from, f), f)

\* re.findall(r, s)
FindAll(r, s, f) == FindAllFrom(r, s, 1, f)

\* s with the matches ms[k..] replaced by repl, from position from on
RECURSIVE Replace(_, _, _, _, _)
Replace(s, ms, k, from, repl) ==
    IF k > Len(ms) THEN SubSeq(s, from, Len(s))
    ELSE SubSeq(s, from, ms[k][1] - 1) \o repl \o Replace(s, ms, k + 1, ms[k][2], repl)

\* re.sub(r, repl, s)
Sub(r, repl, s, f) == Replace(s, FindAll(r, s, f), 1, 1, repl)

\* the pieces of s between the matches ms[k..], from position from on
RECURSIVE Pieces(_, _, _, _)
Pieces(s, ms, k, from) ==
    IF k > Len(ms) THEN << SubSeq(s, from, Len(s)) >>
    ELSE << SubSeq(s, from, ms[k][1] - 1) >> \o Pieces(s, ms, k + 1, ms[k][2])

\* re.split(r, s) for a pattern without groups
Split(r, s, f) == Pieces(s, FindAll(r, s, f), 1, 1)

(***************************************************************************)
(* pii_masker.py: the pattern tables of PIIMasker                          *)
(***************************************************************************)
\* the keys of self.pii_patterns, in the order in which the dict declares them
pii_types ==
    << "phone_numbers",
       "emails",
       "account_numbers",
       "imei_numbers",
       "credit_cards",
       "ssn",
       "names",
       "addresses" >>

\* self.pii_patterns
pii_patterns ==
    [ phone_numbers |->
        << \* r'\b\d{3}-\d{3}-\d{4}\b'
           Cat(<< WB, Rep(Set(Digit), 3, 3, TRUE), Lit(<< "-" >>), Rep(Set(Digit), 3, 3, TRUE), Lit(<< "-" >>), Rep(Set(Digit), 4, 4, TRUE), WB >>),
           \* r'\b\(\d{3}\)\s*\d{3}-\d{4}\b'
           Cat(<< WB, Lit(<< "(" >>), Rep(Set(Digit), 3, 3, TRUE), Lit(<< ")" >>), Star(Set(Space)), Rep(Set(Digit), 3, 3, TRUE), Lit(<< "-" >>), Rep(Set(Digit), 4, 4, TRUE), WB >>),
           \* r'\b\d{3}\.\d{3}\.\d{4}\b'
           Cat(<< WB, Rep(Set(Digit), 3, 3, TRUE), Lit(<< "." >>), Rep(Set(Digit), 3, 3, TRUE), Lit(<< "." >>), Rep(Set(Digit), 4, 4, TRUE), WB >>),
           \* r'\b\d{10}\b'
           Cat(<< WB, Rep(Set(Digit), 10, 10, TRUE), WB >>) >>,
      emails |->
        << \* r'\b[A-Za-z0-9._%+-]+@[A-Za-z0-9.-]+\.[A-Z|a-z]{2,}\b'
           Cat(<< WB, Plus(Set(AlNum \cup { ".", "_", "%", "+", "-" })), Lit(<< "@" >>), Plus(Set(AlNum \cup { ".", "-" })), Lit(<< "." >>), Rep(Set(Alpha \cup { "|" }), 2, -1, TRUE), WB >>) >>,
      account_numbers |->
        << \* r'\b\d{10,15}\b'
           Cat(<< WB, Rep(Set(Digit), 10, 15, TRUE), WB >>),
           \* r'\b[A-Z0-9]{8,12}\b'
           Cat(<< WB, Rep(Set(Upper \cup Digit), 8, 12, TRUE), WB >>) >>,
      imei_numbers |->
        << \* r'\b\d{15}\b'
           Cat(<< WB, Rep(Set(Digit), 15, 15, TRUE), WB >>) >>,
      credit_cards |->
        << \* r'\b\d{4}[\s-]?\d{4}[\s-]?\d{4}[\s-]?\d{4}\b'
           Cat(<< WB, Rep(Set(Digit), 4, 4, TRUE), Opt(Set(Space \cup { "-" })), Rep(Set(Digit), 4, 4, TRUE), Opt(Set(Space \cup { "-" })), Rep(Set(Digit), 4, 4, TRUE), Opt(Set(Space \cup { "-" })), Rep(Set(Digit), 4, 4, TRUE), WB >>) >>,
      ssn |->
        << \* r'\b\d{3}-\d{2}-\d{4}\b'
           Cat(<< WB, Rep(Set(Digit), 3, 3, TRUE), Lit(<< "-" >>), Rep(Set(Digit), 2, 2, TRUE), Lit(<< "-" >>), Rep(Set(Digit), 4, 4, TRUE), WB >>) >>,
      names |->
        << \* r'\b(?:Agent|Customer):\s*[A-Z][a-z]+\s+[A-Z][a-z]+\b'
           Cat(<< WB, Alt(<< Lit(<< "A", "g", "e", "n", "t" >>), Lit(<< "C", "u", "s", "t", "o", "m", "e", "r" >>) >>), Lit(<< ":" >>), Star(Set(Space)), Set(Upper), Plus(Set(Lower)), Plus(Set(Space)), Set(Upper), Plus(Set(Lower)), WB >>),
           \* r'\b[A-Z][a-z]+\s+[A-Z][a-z]+(?=\s+(?:said|called|from))\b'
           Cat(<< WB, Set(Upper), Plus(Set(Lower)), Plus(Set(Space)), Set(Upper), Plus(Set(Lower)), LookAhead(Cat(<< Plus(Set(Space)), Alt(<< Lit(<< "s", "a", "i", "d" >>), Lit(<< "c", "a", "l", "l", "e", "d" >>), Lit(<< "f", "r", "o", "m" >>) >>) >>)), WB >>) >>,
      addresses |->
        << \* r'\b\d+\s+[A-Za-z0-9\s]+(?:Street|St|Avenue|Ave|Road|Rd|Drive|Dr|Lane|Ln|Boulevard|Blvd|Way|Place|Pl)\b'
           Cat(<< WB, Plus(Set(Digit)), Plus(Set(Space)), Plus(Set(AlNum \cup Space)), Alt(<< Lit(<< "S", "t", "r", "e", "e", "t" >>), Lit(<< "S", "t" >>), Lit(<< "A", "v", "e", "n", "u", "e" >>), Lit(<< "A", "v", "e" >>), Lit(<< "R", "o", "a", "d" >>), Lit(<< "R", "d" >>), Lit(<< "D", "r", "i", "v", "e" >>), Lit(<< "D", "r" >>), Lit(<< "L", "a", "n", "e" >>), Lit(<< "L", "n" >>), Lit(<< "B", "o", "u", "l", "e", "v", "a", "r", "d" >>), Lit(<< "B", "l", "v", "d" >>), Lit(<< "W", "a", "y" >>), Lit(<< "P", "l", "a", "c", "e" >>), Lit(<< "P", "l" >>) >>), WB >>),
           \* r'\b\d{5}(?:-\d{4})?\b'
           Cat(<< WB, Rep(Set(Digit), 5, 5, TRUE), Opt(Cat(<< Lit(<< "-" >>), Rep(Set(Digit), 4, 4, TRUE) >>)), WB >>) >> ]

\* self.replacements
replacements ==
    [ phone_numbers |-> << "[", "P", "H", "O", "N", "E", "_", "N", "U", "M", "B", "E", "R", "]" >>,
      emails |-> << "[", "E", "M", "A", "I", "L", "_", "A", "D", "D", "R", "E", "S", "S", "]" >>,
      account_numbers |-> << "[", "A", "C", "C", "O", "U", "N", "T", "_", "N", "U", "M", "B", "E", "R", "]" >>,
      imei_numbers |-> << "[", "D", "E", "V", "I", "C", "E", "_", "I", "D", "]" >>,
      credit_cards |-> << "[", "C", "R", "E", "D", "I", "T", "_", "C", "A", "R", "D", "]" >>,
      ssn |-> << "[", "S", "S", "N", "]" >>,
      names |-> << "[", "C", "U", "S", "T", "O", "M", "E", "R", "_", "N", "A", "M", "E", "]" >>,
      addresses |-> << "[", "A", "D", "D", "R", "E", "S", "S", "]" >> ]

\* telecom_patterns of _mask_telecom_specific, in the order of the dict
telecom_patterns ==
    << [ pattern |->
            \* r'\b(SIM|sim)\s*(card\s*)?number[:\s]+[\w\d]+'
            Cat(<< WB, Alt(<< Lit(<< "S", "I", "M" >>), Lit(<< "s", "i", "m" >>) >>), Star(Set(Space)), Opt(Cat(<< Lit(<< "c", "a", "r", "d" >>), Star(Set(Space)) >>)), Lit(<< "n", "u", "m", "b", "e", "r" >>), Plus(Set(Space \cup { ":" })), Plus(Set(WordChars)) >>),
         replacement |-> << "[", "S", "I", "M", "_", "N", "U", "M", "B", "E", "R", "]" >> ],
       [ pattern |->
            \* r'\bactivation\s*code[:\s]+[\w\d]+'
            Cat(<< WB, Lit(<< "a", "c", "t", "i", "v", "a", "t", "i", "o", "n" >>), Star(Set(Space)), Lit(<< "c", "o", "d", "e" >>), Plus(Set(Space \cup { ":" })), Plus(Set(WordChars)) >>),
         replacement |-> << "[", "A", "C", "T", "I", "V", "A", "T", "I", "O", "N", "_", "C", "O", "D", "E", "]" >> ],
       [ pattern |->
            \* r'\bport\s*request[:\s]+[\w\d-]+'
            Cat(<< WB, Lit(<< "p", "o", "r", "t" >>), Star(Set(Space)), Lit(<< "r", "e", "q", "u", "e", "s", "t" >>), Plus(Set(Space \cup { ":" })), Plus(Set(WordChars \cup { "-" })) >>),
         replacement |-> << "[", "P", "O", "R", "T", "_", "R", "E", "Q", "U", "E", "S", "T", "_", "I", "D", "]" >> ],
       [ pattern |->
            \* r'\btrade-in\s*reference[:\s]+[\w\d-]+'
            Cat(<< WB, Lit(<< "t", "r", "a", "d", "e", "-", "i", "n" >>), Star(Set(Space)), Lit(<< "r", "e", "f", "e", "r", "e", "n", "c", "e" >>), Plus(Set(Space \cup { ":" })), Plus(Set(WordChars \cup { "-" })) >>),
         replacement |-> << "[", "T", "R", "A", "D", "E", "_", "I", "N", "_", "I", "D", "]" >> ],
       [ pattern |->
            \* r'\border\s*confirmation[:\s]+[\w\d-]+'
            Cat(<< WB, Lit(<< "o", "r", "d", "e", "r" >>), Star(Set(Space)), Lit(<< "c", "o", "n", "f", "i", "r", "m", "a", "t", "i", "o", "n" >>), Plus(Set(Space \cup { ":" })), Plus(Set(WordChars \cup { "-" })) >>),
         replacement |-> << "[", "O", "R", "D", "E", "R", "_", "I", "D", "]" >> ],
       [ pattern |->
            \* r'\bbilling\s*address[:\s]+[^.]+\.'
            Cat(<< WB, Lit(<< "b", "i", "l", "l", "i", "n", "g" >>), Star(Set(Space)), Lit(<< "a", "d", "d", "r", "e", "s", "s" >>), Plus(Set(Space \cup { ":" })), Plus(NotSet({ "." })), Lit(<< "." >>) >>),
         replacement |-> << "[", "B", "I", "L", "L", "I", "N", "G", "_", "A", "D", "D", "R", "E", "S", "S", "]", "." >> ],
       [ pattern |->
            \* r'\bZIP\s*code[:\s]+\d{5}'
            Cat(<< WB, Lit(<< "Z", "I", "P" >>), Star(Set(Space)), Lit(<< "c", "o", "d", "e" >>), Plus(Set(Space \cup { ":" })), Rep(Set(Digit), 5, 5, TRUE) >>),
         replacement |-> << "[", "Z", "I", "P", "_", "C", "O", "D", "E", "]" >> ] >>


(***************************************************************************)
(* pii_masker.py: masking                                                  *)
(***************************************************************************)
\* {pii_type: 0 for pii_type in self.pii_patterns.keys()}
ZeroCounts == [ ty \in Range(pii_types) |-> 0 ]

\* the matches found, re.sub called with count=1: only the first is replaced
Masked_count1(st, ty, matches) ==
    [ text   |-> Replace(st.text, SubSeq(matches, 1, Min(1, Len(matches))), 1, 1,
                         replacements[ty]),
      counts |-> [ st.counts EXCEPT ![ty] = @ + Len(matches) ] ]

\* the matches found: findall counts them, sub replaces them
Masked(st, ty, matches) ==
    [ text   |-> Replace(st.text, matches, 1, 1, replacements[ty]),
      counts |-> [ st.counts EXCEPT ![ty] = @ + Len(matches) ] ]

\* one pattern of _mask_text's loop: re.findall counts the matches, then re.sub
\* replaces them; st is [text, counts]
ApplyPattern(st, ty, pattern) == Masked(st, ty, FindAll(pattern, st.text, IGNORECASE))

\* for pattern in patterns, from the k-th on
RECURSIVE ApplyPatterns(_, _, _)
ApplyPatterns(st, ty, k) ==
    IF k > Len(pii_patterns[ty]) THEN st
    ELSE Then(ApplyPattern(st, ty, pii_patterns[ty][k]),
              LAMBDA nxt : ApplyPatterns(nxt, ty, k + 1))

\* for pii_type, patterns in self.pii_patterns.items(), from the t-th type on
RECURSIVE ApplyTypes(_, _)
ApplyTypes(st, t) ==
    IF t > Len(pii_types) THEN st
    ELSE Then(ApplyPatterns(st, pii_types[t], 1), LAMBDA nxt : ApplyTypes(nxt, t + 1))

\* for pattern, replacement in telecom_patterns.items(), from the k-th on
RECURSIVE ApplyTelecom(_, _)
ApplyTelecom(text, k) ==
    IF k > Len(telecom_patterns) THEN text
    ELSE Then(Sub(telecom_patterns[k].pattern, telecom_patterns[k].replacement,
                  text, IGNORECASE),
              LAMBDA nxt : ApplyTelecom(nxt, k + 1))

_mask_telecom_specific(text) == ApplyTelecom(text, 1)

\* the telecom pass on the text that the category pass returned
TelecomPass(st) == [ text |-> _mask_telecom_specific(st.text), counts |-> st.counts ]

\* _mask_text(text) -> [text, counts]
_mask_text(text) ==
    IF text = << >> THEN [ text |-> text, counts |-> ZeroCounts ]
    ELSE TelecomPass(ApplyTypes([ text |-> text, counts |-> ZeroCounts ], 1))


(***************************************************************************)
(* Regular expressions with one capturing group: pre (grp) post            *)
(***************************************************************************)
Empty == Cat(<< >>)
Group(pre, grp, post) == [ pre |-> pre, grp |-> grp, post |-> post ]
Whole(g) == Cat(<< g.pre, g.grp, g.post >>)

\* the first index k in lo..hi such that r matches at ps[k]; 0 if none
RECURSIVE FirstEnd(_, _, _, _, _, _)
FirstEnd(r, s, ps, lo, hi, f) ==
    IF lo > hi THEN 0
    ELSE IF lo = hi THEN (IF Ends(r, s, ps[lo], f) # << >> THEN lo ELSE 0)
    ELSE LET mid == (lo + hi) \div 2
             l == FirstEnd(r, s, ps, lo, mid, f)
         IN  IF l # 0 THEN l ELSE FirstEnd(r, s, ps, mid + 1, hi, f)

\* the span << a, e >> of the group in the match of g that starts at p, the
\* first that the matcher's backtracking order reaches: as[k..] are the
\* positions at which pre can end
RECURSIVE GroupSpan(_, _, _, _, _)
GroupSpan(g, s, as, k, f) ==
    Then(Ends(g.grp, s, as[k], f), LAMBDA es :
    Then(FirstEnd(g.post, s, es, 1, Len(es), f), LAMBDA i :
         IF i # 0 THEN << as[k], es[i] >> ELSE GroupSpan(g, s, as, k + 1, f)))

\* the match m of g in s as re reports it: found, match.group(0), match.group(1)
GroupsOf(g, s, m, f) ==
    IF m[1] = 0 THEN [ found |-> FALSE, group0 |-> << >>, group1 |-> << >> ]
    ELSE Then(GroupSpan(g, s, Ends(g.pre, s, m[1], f), 1, f), LAMBDA sp :
              [ found  |-> TRUE,
                group0 |-> SubSeq(s, m[1], m[2] - 1),
                group1 |-> SubSeq(s, sp[1], sp[2] - 1) ])

\* re.search(g, s)
GroupSearch(g, s, f) == GroupsOf(g, s, Search(Whole(g), s, f), f)

(***************************************************************************)
(* transcript_parser.py: TranscriptParser                                  *)
(***************************************************************************)
\* potential_separators of _parse_text_content; re.split applies each with
\* flags=re.IGNORECASE
potential_separators ==
    << \* r'(?i)call\s+tw_\w+_\d+'
       Cat(<< Lit(<< "c", "a", "l", "l" >>), Plus(Set(Space)), Lit(<< "t", "w", "_" >>), Plus(Set(WordChars)), Lit(<< "_" >>), Plus(Set(Digit)) >>),
       \* r'tw_\w+_\d+'
       Cat(<< Lit(<< "t", "w", "_" >>), Plus(Set(WordChars)), Lit(<< "_" >>), Plus(Set(Digit)) >>),
       \* r'(?i)section\s+\d+'
       Cat(<< Lit(<< "s", "e", "c", "t", "i", "o", "n" >>), Plus(Set(Space)), Plus(Set(Digit)) >>),
       \* r'={3,}'
       Rep(Set({ "=" }), 3, -1, TRUE),
       \* r'-{10,}'
       Rep(Set({ "-" }), 10, -1, TRUE),
       \* r'(?i)transcript\s+\d+'
       Cat(<< Lit(<< "t", "r", "a", "n", "s", "c", "r", "i", "p", "t" >>), Plus(Set(Space)), Plus(Set(Digit)) >>),
       \* r'\d+\.\s+\w+\s+channel'
       Cat(<< Plus(Set(Digit)), Lit(<< "." >>), Plus(Set(Space)), Plus(Set(WordChars)), Plus(Set(Space)), Lit(<< "c", "h", "a", "n", "n", "e", "l" >>) >>) >>

\* patterns of _extract_call_id; the first has no group
call_id_patterns ==
    << \* r'TW_\w+_\d+'
       Group(Empty,
                 Cat(<< Lit(<< "T", "W", "_" >>), Plus(Set(WordChars)), Lit(<< "_" >>), Plus(Set(Digit)) >>),
                 Empty),
       \* r'Call\s+(\w+_\w+_\d+)'
       Group(Cat(<< Lit(<< "C", "a", "l", "l" >>), Plus(Set(Space)) >>),
                 Cat(<< Plus(Set(WordChars)), Lit(<< "_" >>), Plus(Set(WordChars)), Lit(<< "_" >>), Plus(Set(Digit)) >>),
                 Empty),
       \* r'ID[:\s]+([A-Z0-9_]+)'
       Group(Cat(<< Lit(<< "I", "D" >>), Plus(Set(Space \cup { ":" })) >>),
                 Plus(Set(Upper \cup Digit \cup { "_" })),
                 Empty) >>

\* conversation_patterns of _extract_conversation
conversation_patterns ==
    << \* r'(?i)transcript:(.+?)(?=resolution:|impact:|root cause:|$)'
       Group(Lit(<< "t", "r", "a", "n", "s", "c", "r", "i", "p", "t", ":" >>),
                 Rep(AnyChar, 1, -1, FALSE),
                 LookAhead(Alt(<< Lit(<< "r", "e", "s", "o", "l", "u", "t", "i", "o", "n", ":" >>), Lit(<< "i", "m", "p", "a", "c", "t", ":" >>), Lit(<< "r", "o", "o", "t", " ", "c", "a", "u", "s", "e", ":" >>), Eos >>))),
       \* r'(?i)conversation:(.+?)(?=resolution:|impact:|root cause:|$)'
       Group(Lit(<< "c", "o", "n", "v", "e", "r", "s", "a", "t", "i", "o", "n", ":" >>),
                 Rep(AnyChar, 1, -1, FALSE),
                 LookAhead(Alt(<< Lit(<< "r", "e", "s", "o", "l", "u", "t", "i", "o", "n", ":" >>), Lit(<< "i", "m", "p", "a", "c", "t", ":" >>), Lit(<< "r", "o", "o", "t", " ", "c", "a", "u", "s", "e", ":" >>), Eos >>))),
       \* r'(agent:.+?)(?=resolution:|impact:|root cause:|$)'
       Group(Empty,
                 Cat(<< Lit(<< "a", "g", "e", "n", "t", ":" >>), Rep(AnyChar, 1, -1, FALSE) >>),
                 LookAhead(Alt(<< Lit(<< "r", "e", "s", "o", "l", "u", "t", "i", "o", "n", ":" >>), Lit(<< "i", "m", "p", "a", "c", "t", ":" >>), Lit(<< "r", "o", "o", "t", " ", "c", "a", "u", "s", "e", ":" >>), Eos >>))) >>

\* r'^(transcript|conversation):\s*'
conversation_label == Cat(<< Bol, Alt(<< Lit(<< "t", "r", "a", "n", "s", "c", "r", "i", "p", "t" >>), Lit(<< "c", "o", "n", "v", "e", "r", "s", "a", "t", "i", "o", "n" >>) >>), Lit(<< ":" >>), Star(Set(Space)) >>)

\* agent_customer_pattern: r'(agent:.*?customer:.*?)(?=\n\s*[A-Z][A-Z]:|$)'
agent_customer_pattern ==
    Cat(<< Cat(<< Lit(<< "a", "g", "e", "n", "t", ":" >>), Rep(AnyChar, 0, -1, FALSE), Lit(<< "c", "u", "s", "t", "o", "m", "e", "r", ":" >>), Rep(AnyChar, 0, -1, FALSE) >>), LookAhead(Alt(<< Cat(<< Lit(<< "\n" >>), Star(Set(Space)), Set(Upper), Set(Upper), Lit(<< ":" >>) >>), Eos >>)) >>)

\* the label lists that _parse_single_call hands to _extract_field
field_patterns ==
    [ date |->
        << << "d", "a", "t", "e", ":" >>,
           << "t", "i", "m", "e", "s", "t", "a", "m", "p", ":" >>,
           << "t", "i", "m", "e", ":" >> >>,
      category |->
        << << "c", "a", "t", "e", "g", "o", "r", "y", ":" >>,
           << "i", "s", "s", "u", "e", " ", "t", "y", "p", "e", ":" >>,
           << "t", "y", "p", "e", ":" >>,
           << "p", "r", "o", "b", "l", "e", "m", ":" >> >>,
      severity |->
        << << "s", "e", "v", "e", "r", "i", "t", "y", ":" >>,
           << "p", "r", "i", "o", "r", "i", "t", "y", ":" >>,
           << "l", "e", "v", "e", "l", ":" >> >>,
      journey_type |->
        << << "j", "o", "u", "r", "n", "e", "y", " ", "t", "y", "p", "e", ":" >>,
           << "j", "o", "u", "r", "n", "e", "y", ":" >>,
           << "t", "y", "p", "e", ":" >> >>,
      resolution |->
        << << "r", "e", "s", "o", "l", "u", "t", "i", "o", "n", ":" >>,
           << "s", "o", "l", "u", "t", "i", "o", "n", ":" >>,
           << "f", "i", "x", ":" >>,
           << "r", "e", "s", "o", "l", "v", "e", "d", ":" >> >>,
      impact |->
        << << "i", "m", "p", "a", "c", "t", ":" >>,
           << "e", "f", "f", "e", "c", "t", ":" >>,
           << "c", "o", "n", "s", "e", "q", "u", "e", "n", "c", "e", ":" >> >>,
      root_cause |->
        << << "r", "o", "o", "t", " ", "c", "a", "u", "s", "e", ":" >>,
           << "c", "a", "u", "s", "e", ":" >>,
           << "r", "e", "a", "s", "o", "n", ":" >> >> ]


\* f"{n:03d}": the decimal digits of n, zero-padded to three
DigitChars == << "0", "1", "2", "3", "4", "5", "6", "7", "8", "9" >>
RECURSIVE Decimal(_)
Decimal(n) == IF n < 10 THEN << DigitChars[n + 1] >>
              ELSE Decimal(n \div 10) \o << DigitChars[(n % 10) + 1] >>
ZeroPad(d, width) ==
    IF Len(d) >= width THEN d ELSE [ k \in 1..(width - Len(d)) |-> "0" ] \o d
\* f"{n:02d}"
Pad3_width2(n) == ZeroPad(Decimal(n), 2)
\* f"{n:03d}"
Pad3(n) == ZeroPad(Decimal(n), 3)

\* the channel keywords of _extract_call_id, in the order of its elif chain:
\* the words looked up in text.lower() and the token of the synthesized id
id_keywords ==
    << [ words |-> << << "t", "a", "s", "o", "r", "a" >> >>, token |-> << "T", "A", "S", "O", "R", "A" >> ],
       [ words |-> << << "w", "e", "b" >>, << "p", "o", "r", "t", "a", "l" >> >>, token |-> << "W", "E", "B" >> ],
       [ words |-> << << "a", "p", "p" >>, << "m", "o", "b", "i", "l", "e" >> >>, token |-> << "A", "P", "P" >> ],
       [ words |-> << << "t", "a", "r", "g", "e", "t" >> >>, token |-> << "T", "A", "R", "G", "E", "T" >> ],
       [ words |-> << << "s", "m", "s" >>, << "b", "o", "t" >> >>, token |-> << "S", "M", "S" >> ] >>
TW == << "T", "W", "_" >>
UNKNOWN == << "U", "N", "K", "N", "O", "W", "N" >>

\* the first of the explicit patterns k.. that matches decides the id; << >>
\* when none matches
RECURSIVE ExplicitId(_, _)
ExplicitId(text, k) ==
    IF k > Len(call_id_patterns) THEN << >>
    ELSE Then(GroupSearch(call_id_patterns[k], text, IGNORECASE), LAMBDA match :
              IF match.found
              THEN (IF Contains(StrUpper(match.group0), TW) THEN match.group0
                    ELSE TW \o match.group1)
              ELSE ExplicitId(text, k + 1))

\* the elif chain of _extract_call_id, from its k-th branch on
RECURSIVE KeywordToken(_, _)
KeywordToken(text_lower, k) ==
    IF k > Len(id_keywords) THEN UNKNOWN
    ELSE IF \E w \in Range(id_keywords[k].words) : Contains(text_lower, w)
         THEN id_keywords[k].token
         ELSE KeywordToken(text_lower, k + 1)

_extract_call_id(text, call_number) ==
    Then(ExplicitId(text, 1), LAMBDA explicit :
         IF explicit # << >> THEN explicit
         ELSE TW \o KeywordToken(StrLower(text), 1) \o << "_" >> \o Pad3(call_number))

\* the elif chain of _extract_channel: the token looked up in call_id.upper(),
\* the words looked up in text.lower(), and the channel returned
channel_rules ==
    << [ token |-> << "T", "A", "S", "O", "R", "A" >>,
         words |-> << << "t", "a", "s", "o", "r", "a" >> >>,
         channel |-> "TASORA" ],
       [ token |-> << "W", "E", "B" >>,
         words |-> << << "w", "e", "b", " ", "p", "o", "r", "t", "a", "l" >>, << "w", "e", "b", "s", "i", "t", "e" >> >>,
         channel |-> "Web Portal" ],
       [ token |-> << "A", "P", "P" >>,
         words |-> << << "m", "o", "b", "i", "l", "e", " ", "a", "p", "p" >>, << "a", "p", "p", "l", "i", "c", "a", "t", "i", "o", "n" >> >>,
         channel |-> "Mobile App" ],
       [ token |-> << "T", "A", "R", "G", "E", "T" >>,
         words |-> << << "t", "a", "r", "g", "e", "t" >> >>,
         channel |-> "Target" ],
       [ token |-> << "S", "M", "S" >>,
         words |-> << << "s", "m", "s" >>, << "b", "o", "t" >>, << "i", "v", "r" >> >>,
         channel |-> "SMS/Bot/IVR" ] >>

RECURSIVE ChannelFrom(_, _, _)
ChannelFrom(text_lower, call_id_upper, k) ==
    IF k > Len(channel_rules) THEN "Unknown"
    ELSE IF \/ Contains(call_id_upper, channel_rules[k].token)
            \/ \E w \in Range(channel_rules[k].words) : Contains(text_lower, w)
         THEN channel_rules[k].channel
         ELSE ChannelFrom(text_lower, call_id_upper, k + 1)

_extract_channel(text, call_id) == ChannelFrom(StrLower(text), StrUpper(call_id), 1)

\* rf'{pattern}\s*([^\n]+)' for one label
FieldRegex(label) ==
    Group(Cat(<< Lit(label), Star(Set(Space)) >>), Plus(NotSet({ "\n" })), Empty)

\* _extract_field(text, field_patterns), from the k-th label on
RECURSIVE ExtractFieldFrom(_, _, _)
ExtractFieldFrom(text, labels, k) ==
    IF k > Len(labels) THEN << >>
    ELSE Then(GroupSearch(FieldRegex(labels[k]), text, IGNORECASE), LAMBDA match :
              IF match.found THEN Strip(match.group1)
              ELSE ExtractFieldFrom(text, labels, k + 1))

_extract_field(text, labels) == ExtractFieldFrom(text, labels, 1)

\* re.DOTALL | re.IGNORECASE
DOTALL_IGNORECASE == Flags(TRUE, TRUE, FALSE)

\* '\n\n'.join(matches)
RECURSIVE JoinMatches(_, _, _)
JoinMatches(s, ms, k) ==
    IF k > Len(ms) THEN << >>
    ELSE (IF k > 1 THEN << "\n", "\n" >> ELSE << >>)
         \o SubSeq(s, ms[k][1], ms[k][2] - 1) \o JoinMatches(s, ms, k + 1)

\* text[:1000] + "..." if len(text) > 1000 else text
LastResort(text) ==
    IF Len(text) > 1000 THEN SubSeq(text, 1, 1000) \o << ".", ".", "." >> ELSE text

\* the loop over conversation_patterns, from the k-th on, then the fallbacks
RECURSIVE ConversationFrom(_, _)
ConversationFrom(text, k) ==
    IF k > Len(conversation_patterns)
    THEN Then(FindAll(agent_customer_pattern, text, DOTALL_IGNORECASE), LAMBDA matches :
              IF matches # << >> THEN JoinMatches(text, matches, 1) ELSE LastResort(text))
    ELSE Then(GroupSearch(conversation_patterns[k], text, DOTALL_IGNORECASE), LAMBDA match :
              IF match.found
              THEN Sub(conversation_label, << >>, Strip(match.group1), IGNORECASE)
              ELSE ConversationFrom(text, k + 1))

_extract_conversation(text) == ConversationFrom(text, 1)

_parse_single_call(text, call_number) ==
    Then(_extract_call_id(text, call_number), LAMBDA call_id :
        [ call_id      |-> call_id,
          channel      |-> _extract_channel(text, call_id),
          date         |-> _extract_field(text, field_patterns.date),
          category     |-> _extract_field(text, field_patterns.category),
          severity     |-> _extract_field(text, field_patterns.severity),
          journey_type |-> _extract_field(text, field_patterns.journey_type),
          transcript   |-> _extract_conversation(text),
          resolution   |-> _extract_field(text, field_patterns.resolution),
          impact       |-> _extract_field(text, field_patterns.impact),
          root_cause   |-> _extract_field(text, field_patterns.root_cause),
          raw_text_length |-> Len(text) ])

\* if len(s.strip()) > 400
LongEnough_400(s) == Len(Strip(s)) > 400
\* s.strip() for s in test_splits if len(s.strip()) > 300
LongEnough(s) == Len(Strip(s)) > 300
RECURSIVE StripAll(_)
StripAll(ss) == IF ss = << >> THEN << >> ELSE << Strip(Head(ss)) >> \o StripAll(Tail(ss))
ValidSplits(pattern, content) ==
    StripAll(SelectSeq(Split(pattern, content, IGNORECASE), LongEnough))

\* if len(valid_splits) >= len(calls)
Better_or_equal(valid_splits, calls) == Len(valid_splits) >= Len(calls)
\* if len(valid_splits) > len(calls)
Better(valid_splits, calls) == Len(valid_splits) > Len(calls)

\* if not calls: calls = [content]
OrWhole(calls, content) == IF calls = << >> THEN << content >> ELSE calls

\* len(call_text) < 100
TooShort_raw(call_text) == Len(call_text) < 100
\* the section is skipped when it is very short
TooShort(call_text) == Len(Strip(call_text)) < 100


(***************************************************************************)
(* data_cleaner.py: DataCleaner                                            *)
(***************************************************************************)
\* re.sub(pattern, '', text, flags) for each of the patterns k.., in order
RECURSIVE RemoveAll(_, _, _, _)
RemoveAll(patterns, text, k, f) ==
    IF k > Len(patterns) THEN text
    ELSE Then(Sub(patterns[k], << >>, text, f), LAMBDA nxt :
              RemoveAll(patterns, nxt, k + 1, f))

\* the contamination patterns that _clean_category removes
category_contamination ==
    << \* r'\s*Severity:.*$'
       Cat(<< Star(Set(Space)), Lit(<< "S", "e", "v", "e", "r", "i", "t", "y", ":" >>), Star(AnyChar), Eos >>),
       \* r'\s*TRANSCRIPT:.*$'
       Cat(<< Star(Set(Space)), Lit(<< "T", "R", "A", "N", "S", "C", "R", "I", "P", "T", ":" >>), Star(AnyChar), Eos >>),
       \* r'\s*Agent:.*$'
       Cat(<< Star(Set(Space)), Lit(<< "A", "g", "e", "n", "t", ":" >>), Star(AnyChar), Eos >>),
       \* r'\s*High\s*$'
       Cat(<< Star(Set(Space)), Lit(<< "H", "i", "g", "h" >>), Star(Set(Space)), Eos >>),
       \* r'\s*Medium\s*$'
       Cat(<< Star(Set(Space)), Lit(<< "M", "e", "d", "i", "u", "m" >>), Star(Set(Space)), Eos >>),
       \* r'\s*Low\s*$'
       Cat(<< Star(Set(Space)), Lit(<< "L", "o", "w" >>), Star(Set(Space)), Eos >>) >>

\* category_mapping of _clean_category, in the order of the dict
category_mapping ==
    << [ key |-> << "p", "l", "a", "n", " ", "c", "h", "a", "n", "g", "e" >>,
         value |-> << "P", "l", "a", "n", " ", "C", "h", "a", "n", "g", "e" >> ],
       [ key |-> << "d", "e", "v", "i", "c", "e", " ", "a", "c", "t", "i", "v", "a", "t", "i", "o", "n" >>,
         value |-> << "D", "e", "v", "i", "c", "e", " ", "A", "c", "t", "i", "v", "a", "t", "i", "o", "n" >> ],
       [ key |-> << "b", "i", "l", "l", "i", "n", "g", " ", "d", "i", "s", "p", "u", "t", "e" >>,
         value |-> << "B", "i", "l", "l", "i", "n", "g", " ", "D", "i", "s", "p", "u", "t", "e" >> ],
       [ key |-> << "d", "e", "v", "i", "c", "e", " ", "p", "u", "r", "c", "h", "a", "s", "e" >>,
         value |-> << "D", "e", "v", "i", "c", "e", " ", "P", "u", "r", "c", "h", "a", "s", "e" >> ],
       [ key |-> << "a", "c", "c", "o", "u", "n", "t", " ", "m", "a", "n", "a", "g", "e", "m", "e", "n", "t" >>,
         value |-> << "A", "c", "c", "o", "u", "n", "t", " ", "M", "a", "n", "a", "g", "e", "m", "e", "n", "t" >> ],
       [ key |-> << "p", "r", "o", "m", "o", "t", "i", "o", "n", "a", "l", " ", "o", "f", "f", "e", "r", "s" >>,
         value |-> << "P", "r", "o", "m", "o", "t", "i", "o", "n", "a", "l", " ", "O", "f", "f", "e", "r", "s" >> ],
       [ key |-> << "d", "a", "t", "a", " ", "u", "s", "a", "g", "e", " ", "t", "r", "a", "c", "k", "i", "n", "g" >>,
         value |-> << "D", "a", "t", "a", " ", "U", "s", "a", "g", "e", " ", "T", "r", "a", "c", "k", "i", "n", "g" >> ],
       [ key |-> << "d", "e", "v", "i", "c", "e", " ", "u", "p", "g", "r", "a", "d", "e" >>,
         value |-> << "D", "e", "v", "i", "c", "e", " ", "U", "p", "g", "r", "a", "d", "e" >> ],
       [ key |-> << "a", "u", "t", "o", "-", "p", "a", "y", " ", "m", "a", "n", "a", "g", "e", "m", "e", "n", "t" >>,
         value |-> << "A", "u", "t", "o", "-", "P", "a", "y", " ", "M", "a", "n", "a", "g", "e", "m", "e", "n", "t" >> ],
       [ key |-> << "a", "u", "t", "o", " ", "p", "a", "y", " ", "m", "a", "n", "a", "g", "e", "m", "e", "n", "t" >>,
         value |-> << "A", "u", "t", "o", "-", "P", "a", "y", " ", "M", "a", "n", "a", "g", "e", "m", "e", "n", "t" >> ],
       [ key |-> << "s", "i", "m", " ", "c", "a", "r", "d", " ", "a", "c", "t", "i", "v", "a", "t", "i", "o", "n" >>,
         value |-> << "S", "I", "M", " ", "C", "a", "r", "d", " ", "A", "c", "t", "i", "v", "a", "t", "i", "o", "n" >> ],
       [ key |-> << "p", "r", "o", "m", "o", "t", "i", "o", "n", "a", "l", " ", "p", "r", "i", "c", "i", "n", "g" >>,
         value |-> << "P", "r", "o", "m", "o", "t", "i", "o", "n", "a", "l", " ", "P", "r", "i", "c", "i", "n", "g" >> ],
       [ key |-> << "d", "e", "v", "i", "c", "e", " ", "r", "e", "t", "u", "r", "n" >>,
         value |-> << "D", "e", "v", "i", "c", "e", " ", "R", "e", "t", "u", "r", "n" >> ],
       [ key |-> << "d", "a", "t", "a", " ", "u", "s", "a", "g", "e", " ", "a", "l", "e", "r", "t", "s" >>,
         value |-> << "D", "a", "t", "a", " ", "U", "s", "a", "g", "e", " ", "A", "l", "e", "r", "t", "s" >> ],
       [ key |-> << "s", "e", "r", "v", "i", "c", "e", " ", "c", "o", "m", "m", "a", "n", "d", "s" >>,
         value |-> << "S", "e", "r", "v", "i", "c", "e", " ", "C", "o", "m", "m", "a", "n", "d", "s" >> ],
       [ key |-> << "b", "a", "l", "a", "n", "c", "e", " ", "i", "n", "q", "u", "i", "r", "y" >>,
         value |-> << "B", "a", "l", "a", "n", "c", "e", " ", "I", "n", "q", "u", "i", "r", "y" >> ] >>

\* for key, value in category_mapping.items(), from the k-th on
RECURSIVE MapCategory(_, _, _)
MapCategory(category_clean, category_lower, k) ==
    IF k > Len(category_mapping)
    THEN (IF category_clean # << >> THEN category_clean ELSE << "U", "n", "k", "n", "o", "w", "n" >>)
    ELSE IF Contains(category_lower, category_mapping[k].key)
         THEN category_mapping[k].value
         ELSE MapCategory(category_clean, category_lower, k + 1)

_clean_category(category) ==
    IF category = << >> THEN << >>
    ELSE Then(Strip(RemoveAll(category_contamination, category, 1, IGNORECASE)),
              LAMBDA category_clean : MapCategory(category_clean, StrLower(category_clean), 1))

\* the contamination patterns that _clean_severity removes
severity_contamination ==
    << \* r'\s*TRANSCRIPT:.*$'
       Cat(<< Star(Set(Space)), Lit(<< "T", "R", "A", "N", "S", "C", "R", "I", "P", "T", ":" >>), Star(AnyChar), Eos >>),
       \* r'\s*Agent:.*$'
       Cat(<< Star(Set(Space)), Lit(<< "A", "g", "e", "n", "t", ":" >>), Star(AnyChar), Eos >>),
       \* r'\s*Category:.*$'
       Cat(<< Star(Set(Space)), Lit(<< "C", "a", "t", "e", "g", "o", "r", "y", ":" >>), Star(AnyChar), Eos >>) >>

High == << "H", "i", "g", "h" >>
Medium == << "M", "e", "d", "i", "u", "m" >>
Low == << "L", "o", "w" >>
Critical == << "C", "r", "i", "t", "i", "c", "a", "l" >>

_clean_severity(severity) ==
    IF severity = << >> THEN << >>
    ELSE Then(StrTitle(Strip(RemoveAll(severity_contamination, severity, 1, IGNORECASE))),
              LAMBDA severity_clean :
              IF Contains(StrLower(severity_clean), StrLower(High)) THEN High
              ELSE IF Contains(StrLower(severity_clean), StrLower(Medium)) THEN Medium
              ELSE IF Contains(StrLower(severity_clean), StrLower(Low)) THEN Low
              ELSE IF Contains(StrLower(severity_clean), StrLower(Critical)) THEN Critical
              ELSE IF severity_clean # << >> THEN severity_clean
              ELSE Medium)

Tangible == << "T", "a", "n", "g", "i", "b", "l", "e" >>
NonTangible == << "N", "o", "n", "-", "t", "a", "n", "g", "i", "b", "l", "e" >>

_clean_journey_type(journey_type) ==
    IF journey_type = << >> THEN << >>
    ELSE Then(StrTitle(Strip(journey_type)), LAMBDA journey_clean :
              IF Contains(StrLower(journey_clean), StrLower(Tangible)) THEN Tangible
              ELSE IF Contains(StrLower(journey_clean), StrLower(NonTangible)) THEN NonTangible
              ELSE IF journey_clean # << >> THEN journey_clean
              ELSE NonTangible)

\* date_patterns of _clean_date
date_patterns ==
    << \* r'(\w+\s+\d+,\s+\d{4})'
       Group(Empty,
                 Cat(<< Plus(Set(WordChars)), Plus(Set(Space)), Plus(Set(Digit)), Lit(<< "," >>), Plus(Set(Space)), Rep(Set(Digit), 4, 4, TRUE) >>),
                 Empty),
       \* r'(\d{4}-\d{2}-\d{2})'
       Group(Empty,
                 Cat(<< Rep(Set(Digit), 4, 4, TRUE), Lit(<< "-" >>), Rep(Set(Digit), 2, 2, TRUE), Lit(<< "-" >>), Rep(Set(Digit), 2, 2, TRUE) >>),
                 Empty),
       \* r'(\d{1,2}/\d{1,2}/\d{4})'
       Group(Empty,
                 Cat(<< Rep(Set(Digit), 1, 2, TRUE), Lit(<< "/" >>), Rep(Set(Digit), 1, 2, TRUE), Lit(<< "/" >>), Rep(Set(Digit), 4, 4, TRUE) >>),
                 Empty) >>

\* for pattern in date_patterns, from the k-th on
RECURSIVE DateFrom(_, _)
DateFrom(date, k) ==
    IF k > Len(date_patterns) THEN Strip(date)
    ELSE Then(GroupSearch(date_patterns[k], date, NOFLAGS), LAMBDA match :
              IF match.found THEN match.group1 ELSE DateFrom(date, k + 1))

_clean_date(date) == IF date = << >> THEN << >> ELSE DateFrom(date, 1)

\* re.MULTILINE | re.IGNORECASE and re.MULTILINE
MULTILINE_IGNORECASE == Flags(TRUE, FALSE, TRUE)
MULTILINE == Flags(FALSE, FALSE, TRUE)

\* the header and footer lines that _clean_conversation removes
header_patterns ==
    << \* r'^.*?TOTAL WIRELESS.*?Customer Support.*?$'
       Cat(<< Bol, Rep(AnyChar, 0, -1, FALSE), Lit(<< "T", "O", "T", "A", "L", " ", "W", "I", "R", "E", "L", "E", "S", "S" >>), Rep(AnyChar, 0, -1, FALSE), Lit(<< "C", "u", "s", "t", "o", "m", "e", "r", " ", "S", "u", "p", "p", "o", "r", "t" >>), Rep(AnyChar, 0, -1, FALSE), Eos >>),
       \* r'^.*?Dataset.*?$'
       Cat(<< Bol, Rep(AnyChar, 0, -1, FALSE), Lit(<< "D", "a", "t", "a", "s", "e", "t" >>), Rep(AnyChar, 0, -1, FALSE), Eos >>) >>
separator_line_patterns ==
    << \* r'^.*?===+.*?$'
       Cat(<< Bol, Rep(AnyChar, 0, -1, FALSE), Lit(<< "=", "=" >>), Plus(Set({ "=" })), Rep(AnyChar, 0, -1, FALSE), Eos >>),
       \* r'^.*?Channels:.*?$'
       Cat(<< Bol, Rep(AnyChar, 0, -1, FALSE), Lit(<< "C", "h", "a", "n", "n", "e", "l", "s", ":" >>), Rep(AnyChar, 0, -1, FALSE), Eos >>) >>
\* r'\n\s*\n\s*\n+'
blank_lines == Cat(<< Lit(<< "\n" >>), Star(Set(Space)), Lit(<< "\n" >>), Star(Set(Space)), Plus(Set({ "\n" })) >>)

_clean_conversation(conversation) ==
    IF conversation = << >> THEN << >>
    ELSE Strip(Sub(blank_lines, << "\n", "\n" >>,
                   RemoveAll(separator_line_patterns,
                             RemoveAll(header_patterns, conversation, 1, MULTILINE_IGNORECASE),
                             1, MULTILINE),
                   NOFLAGS))

\* the contamination patterns that _clean_resolution removes
resolution_contamination ==
    << \* r'\s*Impact:.*$'
       Cat(<< Star(Set(Space)), Lit(<< "I", "m", "p", "a", "c", "t", ":" >>), Star(AnyChar), Eos >>),
       \* r'\s*Root Cause:.*$'
       Cat(<< Star(Set(Space)), Lit(<< "R", "o", "o", "t", " ", "C", "a", "u", "s", "e", ":" >>), Star(AnyChar), Eos >>) >>

_clean_resolution(resolution) ==
    IF resolution = << >> THEN << >>
    ELSE Strip(RemoveAll(resolution_contamination, resolution, 1, IGNORECASE))

\* the contamination patterns that _clean_impact removes
impact_contamination ==
    << \* r'\s*Root Cause:.*$'
       Cat(<< Star(Set(Space)), Lit(<< "R", "o", "o", "t", " ", "C", "a", "u", "s", "e", ":" >>), Star(AnyChar), Eos >>),
       \* r'\s*Resolution:.*$'
       Cat(<< Star(Set(Space)), Lit(<< "R", "e", "s", "o", "l", "u", "t", "i", "o", "n", ":" >>), Star(AnyChar), Eos >>) >>

_clean_impact(impact) ==
    IF impact = << >> THEN << >>
    ELSE Strip(RemoveAll(impact_contamination, impact, 1, IGNORECASE))

_clean_single_transcript(transcript) ==
    [ transcript EXCEPT
        !.category     = _clean_category(transcript.category),
        !.severity     = _clean_severity(transcript.severity),
        !.journey_type = _clean_journey_type(transcript.journey_type),
        !.date         = _clean_date(transcript.date),
        !.transcript   = _clean_conversation(transcript.transcript),
        !.resolution   = _clean_resolution(transcript.resolution),
        !.impact       = _clean_impact(transcript.impact) ]


\* fields_to_mask with the category among the fields
fields_to_mask_category == << "transcript", "resolution", "impact", "root_cause", "category" >>

\* fields_to_mask of _mask_single_transcript
fields_to_mask == << "transcript", "resolution", "impact", "root_cause" >>

\* pii_found[pii_type] += count, for every type
AddCounts(a, b) == [ ty \in Range(pii_types) |-> a[ty] + b[ty] ]

\* masked[field] = masked_text, and the counts of the field added to pii_found
FieldMasked(st, field, r) ==
    [ masked    |-> [ st.masked EXCEPT ![field] = r.text ],
      pii_found |-> AddCounts(st.pii_found, r.counts) ]

\* if field in masked and masked[field]: ...
MaskField(st, field) ==
    IF field \in DOMAIN st.masked /\ st.masked[field] # << >>
    THEN FieldMasked(st, field, _mask_text(st.masked[field]))
    ELSE st

\* for field in fields_to_mask, from the k-th on; st is [masked, pii_found]
RECURSIVE MaskFields(_, _)
MaskFields(st, k) ==
    IF k > Len(fields_to_mask) THEN st
    ELSE Then(MaskField(st, fields_to_mask[k]), LAMBDA nxt : MaskFields(nxt, k + 1))

\* masked['call_id'] = masked_call_id, and the counts of the call_id added to
\* pii_found as those of a field are
MaskCallId_counted(st) ==
    IF "call_id" \in DOMAIN st.masked
    THEN FieldMasked(st, "call_id", _mask_text(st.masked.call_id))
    ELSE st

\* if 'call_id' in masked: masked['call_id'] = masked_call_id; the counts of
\* the call_id are dropped
MaskCallId(st) ==
    IF "call_id" \in DOMAIN st.masked
    THEN [ masked    |-> [ st.masked EXCEPT !.call_id = _mask_text(st.masked.call_id).text ],
           pii_found |-> st.pii_found ]
    ELSE st

\* _mask_single_transcript(transcript) -> [masked, pii_found]: the four text
\* fields, then the call_id
_mask_single_transcript(transcript) ==
    MaskCallId(MaskFields([ masked |-> transcript, pii_found |-> ZeroCounts ], 1))

(***************************************************************************)
(* The state                                                               *)
(***************************************************************************)
VARIABLES
    pc,           \* the position of the run
    text,         \* the text handed to _mask_text or to _parse_single_call
    masked,       \* what _mask_text returned for text: [text, counts]
    remasked,     \* what _mask_text returned for masked.text
    call_number,  \* the sequence index handed to _parse_single_call
    record,       \* what _parse_single_call returned
    content,      \* the text of the document handed to _parse_text_content
    i,            \* the index of the loop that is running
    calls,        \* _parse_text_content: the best split found so far
    best_split,   \* _parse_text_content: the separator that produced calls
    parsed_calls, \* _parse_text_content: the records parsed so far
    cleaned_transcripts,  \* clean_parsed_data: the records cleaned so far
    masked_transcripts,   \* mask_data: the records masked so far
    llm_input,    \* the transcripts last handed to generate_test_cases
    raw,          \* the raw field value handed to a _clean_* function
    normalized,   \* what the _clean_* function returned for raw: [field, value]
    cleaned,      \* what _clean_single_transcript returned for record
    input_file,   \* clean_parsed_data, mask_data: the file at input_file
    output_file,  \* clean_parsed_data, mask_data: the file at output_file
    result,       \* clean_parsed_data, mask_data: what the call returned
    pii_stats,    \* mask_data: the counts of the batch so far
    files,        \* the files of data/processed and data/output, by path
    now,          \* datetime.now(), in seconds
    temp_parsed,  \* upload_transcripts: the path of the parsed batch
    requests,     \* the requests the web server is handling, by thread
    responses,    \* what the LLM API answers for each transcript
    generated_test_cases  \* generate_test_cases: the test cases so far

maskVars == << masked, remasked >>
extractVars == << call_number, record >>
parseVars == << content, i, calls, best_split, parsed_calls >>
batchVars == << cleaned_transcripts, masked_transcripts >>
webVars == << llm_input >>
cleanVars == << raw, normalized, cleaned >>
fileVars == << input_file, output_file, result, pii_stats >>
diskVars == << files, now, temp_parsed, requests, responses, generated_test_cases >>
vars == << pc, text, maskVars, extractVars, parseVars, batchVars, webVars, cleanVars, fileVars, diskVars >>

\* the value of a variable that a run does not use
Idle == << >>
NoMask == masked = Idle /\ remasked = Idle
NoExtract == call_number = 0 /\ record = Idle
NoParse == content = Idle /\ i = 0 /\ calls = Idle /\ best_split = 0 /\ parsed_calls = Idle
NoBatch == cleaned_transcripts = Idle /\ masked_transcripts = Idle
NoWeb == llm_input = Idle
NoClean == raw = Idle /\ normalized = Idle /\ cleaned = Idle
NoFile == input_file = Idle /\ output_file = Idle /\ result = Idle /\ pii_stats = Idle
NoDisk ==
    /\ files = Idle /\ now = 0 /\ temp_parsed = Idle
    /\ requests = Idle /\ responses = Idle /\ generated_test_cases = Idle
(***************************************************************************)
(* Masking a text, and masking the result again                            *)
(***************************************************************************)
\* the pieces the input texts are made of
MaskFragments ==
    << << "C", "a", "l", "l", " ", "m", "e", " ", "a", "t", " ", "5", "5", "5", "-", "1", "2", "3", "-", "4", "5", "6", "7" >>,
       << " ", "o", "r", " ", "e", "m", "a", "i", "l", " ", "a", "@", "b", ".", "c", "o", "m" >>,
       << "C", "a", "l", "l", " ", "5", "5", "5", "-", "1", "2", "3", "-", "4", "5", "6", "7", " ", "o", "r", " ", "m", "a", "i", "l", " ", "a", "@", "b", ".", "c", "o", "m", "." >>,
       << "b", "i", "l", "l", "i", "n", "g", " ", "a", "d", "d", "r", "e", "s", "s", ":", " " >>,
       << "Z", "I", "P", " ", "c", "o", "d", "e", ":", " ", "1", "2", "3", "4", "5" >>,
       << "C", "u", "s", "t", "o", "m", "e", "r" >>,
       << "5", "5", "5", "1", "2", "3", "4", "5", "6", "7" >>,
       << "x" >>,
       << " " >> >>

\* the most pieces in an input text
MaxFrags == 2

\* the texts of at most n pieces
RECURSIVE Texts(_)
Texts(n) ==
    IF n = 0 THEN { << >> }
    ELSE Texts(n - 1) \cup { t \o MaskFragments[k] : t \in Texts(n - 1), k \in 1..Len(MaskFragments) }

InitMask ==
    /\ pc = "input"
    /\ text \in Texts(MaxFrags)
    /\ masked = Idle
    /\ remasked = Idle
    /\ NoExtract /\ NoParse /\ NoBatch /\ NoWeb /\ NoClean /\ NoFile /\ NoDisk

\* masked_text, pii_counts = self._mask_text(text)
Mask ==
    /\ pc = "input"
    /\ masked' = _mask_text(text)
    /\ pc' = "masked"
    /\ UNCHANGED << text, remasked, extractVars, parseVars, batchVars, webVars, cleanVars, fileVars, diskVars >>

\* the masked text goes through _mask_text once more
Remask ==
    /\ pc = "masked"
    /\ remasked' = _mask_text(masked.text)
    /\ pc' = "remasked"
    /\ UNCHANGED << text, masked, extractVars, parseVars, batchVars, webVars, cleanVars, fileVars, diskVars >>

NextMask == Mask \/ Remask

SpecMask == InitMask /\ [][NextMask]_vars

(***************************************************************************)
(* C1                                                                      *)
(***************************************************************************)
\* C1: masking is idempotent: masking the masked text returns it unchanged, and
\* the second call counts no match in any category.
C1_MaskIdempotent ==
    pc = "remasked" =>
        /\ remasked.text = masked.text
        /\ remasked.counts = ZeroCounts

(***************************************************************************)
(* C2                                                                      *)
(***************************************************************************)
PHONE_NUMBER == replacements.phone_numbers
EMAIL_ADDRESS == replacements.emails
DashedPhone == pii_patterns.phone_numbers[1]
EmailPattern == pii_patterns.emails[1]

\* re.search finds no phone-number pattern and no e-mail pattern in t
NoResidue(t) ==
    /\ \A k \in 1..Len(pii_patterns.phone_numbers) :
           Search(pii_patterns.phone_numbers[k], t, IGNORECASE)[1] = 0
    /\ Search(EmailPattern, t, IGNORECASE)[1] = 0

\* the match m of s has white space, or an end of s, on either side
Delimited(s, m) ==
    /\ m[1] = 1 \/ s[m[1] - 1] \in Space
    /\ m[2] = Len(s) + 1 \/ s[m[2]] \in Space

\* t holds a DDD-DDD-DDDD phone number as a word of its own
HasDelimitedPhone(t) ==
    LET ms == FindAll(DashedPhone, t, IGNORECASE)
    IN  \E k \in 1..Len(ms) : Delimited(t, ms[k])

\* t holds an e-mail address as a word of its own, and no phone-number pattern
\* matches inside the address
HasDelimitedEmail(t) ==
    LET ms == FindAll(EmailPattern, t, IGNORECASE)
    IN  \E k \in 1..Len(ms) :
            /\ Delimited(t, ms[k])
            /\ \A j \in 1..Len(pii_patterns.phone_numbers) :
                   Search(pii_patterns.phone_numbers[j],
                          SubSeq(t, ms[k][1], ms[k][2] - 1), IGNORECASE)[1] = 0

\* r'billing\s*address'
BillingLabel == Cat(<< Lit(<< "b", "i", "l", "l", "i", "n", "g" >>), Star(Set(Space)), Lit(<< "a", "d", "d", "r", "e", "s", "s" >>) >>)
NoBillingLabel(t) == Search(BillingLabel, t, IGNORECASE)[1] = 0

OneMatch(r, t) ==
    LET ms == FindAll(r, t, IGNORECASE)
    IN  IF Len(ms) = 1 THEN SubSeq(t, ms[1][1], ms[1][2] - 1) ELSE << >>

NumericFragments ==
    << << "1", "2", "3", "4", "5", "6", "7", "8", "9", "0", "1", "2", "3", "4", "5" >>,
       << "1", "2", "3", "-", "4", "5", "-", "6", "7", "8", "9" >>,
       << "1", "2", "3", "4", " ", "5", "6", "7", "8", " ", "9", "0", "1", "2", " ", "3", "4", "5", "6" >>,
       << "1", "2", "3", "4", "-", "5", "6", "7", "8", "-", "9", "0", "1", "2", "-", "3", "4", "5", "6" >>,
       << "1", "2", "3", "4", "5", "6", "7", "8", "9", "0", "1", "2", "3", "4", "5", "6" >>,
       << "I", "M", "E", "I", " " >>,
       << " ", "a", "n", "d", " " >>,
       << "x" >> >>

\* the most pieces in such a text
MaxNumeric == 2

\* the texts of at most n pieces
RECURSIVE NumericTexts(_)
NumericTexts(n) ==
    IF n = 0 THEN { << >> }
    ELSE NumericTexts(n - 1)
         \cup { t \o NumericFragments[k] : t \in NumericTexts(n - 1), k \in 1..Len(NumericFragments) }

InitNumeric ==
    /\ pc = "input"
    /\ text \in NumericTexts(MaxNumeric)
    /\ masked = Idle
    /\ remasked = Idle
    /\ NoExtract /\ NoParse /\ NoBatch /\ NoWeb /\ NoClean /\ NoFile /\ NoDisk

NextNumeric == Mask

SpecNumeric == InitNumeric /\ [][NextNumeric]_vars

(***************************************************************************)
(* C21                                                                     *)
(***************************************************************************)
\* 15 digits; DDD-DD-DDDD; four groups of four digits, with a blank or a
\* dash or nothing between two groups
Imei15 == Rep(Set(Digit), 15, 15, TRUE)
SsnShape == Cat(<< Rep(Set(Digit), 3, 3, TRUE), Lit(<< "-" >>), Rep(Set(Digit), 2, 2, TRUE), Lit(<< "-" >>), Rep(Set(Digit), 4, 4, TRUE) >>)
Card16 ==
    Cat(<< Rep(Set(Digit), 4, 4, TRUE), Opt(Set(Space \cup { "-" })),
           Rep(Set(Digit), 4, 4, TRUE), Opt(Set(Space \cup { "-" })),
           Rep(Set(Digit), 4, 4, TRUE), Opt(Set(Space \cup { "-" })),
           Rep(Set(Digit), 4, 4, TRUE) >>)

\* t is words between blanks, one of them a match of shape and none of the
\* others with a digit: the one match of shape in t, or nothing
Standalone(shape, t) ==
    LET ms == FindAll(shape, t, NOFLAGS)
    IN  IF /\ Len(ms) = 1
           /\ Delimited(t, ms[1])
           /\ \A k \in 1..Len(t) : t[k] \in Digit => (ms[1][1] <= k /\ k < ms[1][2])
        THEN ms[1] ELSE << >>

\* t with the match m replaced by the placeholder
Replaced(t, m, placeholder) == SubSeq(t, 1, m[1] - 1) \o placeholder \o SubSeq(t, m[2], Len(t))

\* C21 (as stated): a standalone sequence of 15 digits is replaced by
\* [DEVICE_ID] and counted as imei_numbers, a standalone DDD-DD-DDDD by [SSN],
\* a standalone sequence of 16 digits in groups by [CREDIT_CARD].
C21_NumericPlaceholders ==
    pc = "masked" =>
        /\ Standalone(Imei15, text) # << >> =>
               /\ masked.text = Replaced(text, Standalone(Imei15, text), replacements.imei_numbers)
               /\ masked.counts.imei_numbers = 1
        /\ Standalone(SsnShape, text) # << >> =>
               masked.text = Replaced(text, Standalone(SsnShape, text), replacements.ssn)
        /\ Standalone(Card16, text) # << >> =>
               masked.text = Replaced(text, Standalone(Card16, text), replacements.credit_cards)

\* the parts of C21 about the SSN and the credit card alone
C21_SsnAndCard ==
    pc = "masked" =>
        /\ Standalone(SsnShape, text) # << >> =>
               /\ masked.text = Replaced(text, Standalone(SsnShape, text), replacements.ssn)
               /\ masked.counts.ssn = 1
        /\ Standalone(Card16, text) # << >> =>
               /\ masked.text = Replaced(text, Standalone(Card16, text), replacements.credit_cards)
               /\ masked.counts.credit_cards = 1

\* 'IMEI 123456789012345' has been masked to 'IMEI [ACCOUNT_NUMBER]', and
\* counted as an account number
C21_ImeiAsAccount ==
    /\ pc = "masked"
    /\ text = << "I", "M", "E", "I", " ", "1", "2", "3", "4", "5", "6", "7", "8", "9", "0", "1", "2", "3", "4", "5" >>
    /\ masked.text = << "I", "M", "E", "I", " ", "[", "A", "C", "C", "O", "U", "N", "T", "_", "N", "U", "M", "B", "E", "R", "]" >>
    /\ masked.counts.account_numbers = 1
    /\ masked.counts.imei_numbers = 0
(***************************************************************************)
(* Parsing one section                                                     *)
(***************************************************************************)
\* the words the section texts are made of
SectionWords ==
    << << "t", "a", "s", "o", "r", "a" >>,
       << "m", "y", " ", "W", "E", "B" >>,
       << "p", "o", "r", "t", "a", "l" >>,
       << "A", "p", "p" >>,
       << "m", "o", "b", "i", "l", "e" >>,
       << "T", "a", "r", "g", "e", "t" >>,
       << "s", "m", "s" >>,
       << "b", "o", "t" >>,
       << "h", "e", "l", "l", "o" >>,
       << "T", "W", "_", "W", "E", "B", "_", "7" >>,
       << "p", "a", "i", "d" >>,
       << "C", "a", "l", "l", " ", "X", "_", "A", "P", "P", "_", "2" >> >>

\* the most words in a section text
MaxWords == 2

\* the texts of at most n words, a blank between two words
RECURSIVE SectionTexts(_)
SectionTexts(n) ==
    IF n = 0 THEN { << >> }
    ELSE SectionTexts(n - 1)
         \cup { (IF t = << >> THEN t ELSE t \o << " " >>) \o SectionWords[k] :
                t \in SectionTexts(n - 1), k \in 1..Len(SectionWords) }

\* the sequence indices a section is parsed with
CallNumbers == { 1, 12, 345, 1000 }

InitExtract ==
    /\ pc = "section"
    /\ text \in SectionTexts(MaxWords)
    /\ call_number \in CallNumbers
    /\ record = Idle
    /\ NoMask /\ NoParse /\ NoBatch /\ NoWeb /\ NoClean /\ NoFile /\ NoDisk

\* parsed_call = self._parse_single_call(call_text, i + 1)
ParseSingleCall ==
    /\ pc = "section"
    /\ record' = _parse_single_call(text, call_number)
    /\ pc' = "record"
    /\ UNCHANGED << text, call_number, maskVars, parseVars, batchVars, webVars, cleanVars, fileVars, diskVars >>

NextExtract == ParseSingleCall

SpecExtract == InitExtract /\ [][NextExtract]_vars

(***************************************************************************)
(* C8                                                                      *)
(***************************************************************************)
\* none of the explicit ID patterns matches in t
NoExplicitId(t) ==
    \A k \in 1..Len(call_id_patterns) :
        Search(Whole(call_id_patterns[k]), t, IGNORECASE)[1] = 0

\* the channel of the first keyword group that t holds, in the order tasora,
\* web/portal, app/mobile, target, sms/bot
KeywordChannel(t) ==
    LET has(w) == Contains(StrLower(t), w)
    IN  IF has(<< "t", "a", "s", "o", "r", "a" >>) THEN << "T", "A", "S", "O", "R", "A" >>
        ELSE IF has(<< "w", "e", "b" >>) \/ has(<< "p", "o", "r", "t", "a", "l" >>) THEN << "W", "E", "B" >>
        ELSE IF has(<< "a", "p", "p" >>) \/ has(<< "m", "o", "b", "i", "l", "e" >>) THEN << "A", "P", "P" >>
        ELSE IF has(<< "t", "a", "r", "g", "e", "t" >>) THEN << "T", "A", "R", "G", "E", "T" >>
        ELSE IF has(<< "s", "m", "s" >>) \/ has(<< "b", "o", "t" >>) THEN << "S", "M", "S" >>
        ELSE << "U", "N", "K", "N", "O", "W", "N" >>

\* the number that the decimal digits d write
RECURSIVE DigitsValue(_)
DigitsValue(d) ==
    IF d = << >> THEN 0
    ELSE 10 * DigitsValue(SubSeq(d, 1, Len(d) - 1))
         + (CHOOSE n \in 0..9 : DigitChars[n + 1] = d[Len(d)])

\* d writes n in decimal digits, zero-padded to three
IsPadded3(d, n) ==
    /\ \A k \in 1..Len(d) : d[k] \in Range(DigitChars)
    /\ DigitsValue(d) = n
    /\ Len(d) >= 3
    /\ Len(d) > 3 => d[1] # "0"

\* C8: a section in which no explicit ID pattern matches gets the call_id
\* TW_<CHANNEL>_<NNN>: CHANNEL from the first keyword group present, in the
\* order tasora, web/portal, app/mobile, target, sms/bot, UNKNOWN when none is;
\* NNN the sequence index zero-padded to three digits.
C8_SynthesizedCallId ==
    (pc = "record" /\ NoExplicitId(text)) =>
        LET head == TW \o KeywordChannel(text) \o << "_" >>
        IN  /\ Len(record.call_id) > Len(head)
            /\ SubSeq(record.call_id, 1, Len(head)) = head
            /\ IsPadded3(SubSeq(record.call_id, Len(head) + 1, Len(record.call_id)),
                         call_number)

\* C8, witness: a section with a lower-priority keyword before a
\* higher-priority one and no explicit id has been given a synthesized id
C8_Witness ==
    /\ pc = "record"
    /\ NoExplicitId(text)
    /\ text = << "b", "o", "t", " ", "t", "a", "s", "o", "r", "a" >>
    /\ call_number = 12
    /\ record.call_id = << "T", "W", "_", "T", "A", "S", "O", "R", "A", "_", "0", "1", "2" >>

\* C8, witness of the default: a section with no keyword and no explicit id
C8_WitnessUnknown ==
    /\ pc = "record"
    /\ NoExplicitId(text)
    /\ KeywordChannel(text) = UNKNOWN
    /\ text # << >>
    /\ record.call_id = TW \o UNKNOWN \o << "_" >> \o << "0", "0", "1" >>

(***************************************************************************)
(* C10                                                                     *)
(***************************************************************************)
\* the channel tokens a call_id can embed, and the channel each stands for
TokenChannels ==
    { << << "T", "A", "S", "O", "R", "A" >>, "TASORA" >>, << << "W", "E", "B" >>, "Web Portal" >>, << << "A", "P", "P" >>, "Mobile App" >>,
      << << "T", "A", "R", "G", "E", "T" >>, "Target" >>, << << "S", "M", "S" >>, "SMS/Bot/IVR" >> }

Channels == { "TASORA", "Web Portal", "Mobile App", "Target", "SMS/Bot/IVR", "Unknown" }

\* the channels of the tokens that call_id embeds
EmbeddedChannels(call_id) ==
    { tc[2] : tc \in { x \in TokenChannels : Contains(StrUpper(call_id), x[1]) } }

\* the channel that the keyword search of the section text gives
KeywordChannelName(t) ==
    IF KeywordChannel(t) = UNKNOWN THEN "Unknown"
    ELSE (CHOOSE tc \in TokenChannels : tc[1] = KeywordChannel(t))[2]

\* C10 (as stated): the channel is that of the channel token embedded in the
\* call_id whenever the call_id embeds one; the keyword search over the section
\* text decides only when the call_id embeds none, and gives Unknown when no
\* keyword is found; the channel is always one of the six channels.
C10_ChannelFromCallId ==
    pc = "record" =>
        /\ record.channel \in Channels
        /\ EmbeddedChannels(record.call_id) # {}
             => record.channel \in EmbeddedChannels(record.call_id)
        /\ EmbeddedChannels(record.call_id) = {}
             => record.channel = KeywordChannelName(text)
(***************************************************************************)
(* _extract_conversation on sections with agent/customer exchanges         *)
(***************************************************************************)
\* the pieces the sections are made of: two agent/customer pairs, the line of
\* another speaker, the labels of a conversation block, the label that ends
\* one, a sentence without label
ConversationPieces ==
    << << "A", "g", "e", "n", "t", ":", " ", "a", "\n", "C", "u", "s", "t", "o", "m", "e", "r", ":", " ", "b" >>, << "\n", "A", "g", "e", "n", "t", ":", " ", "c", "\n", "C", "u", "s", "t", "o", "m", "e", "r", ":", " ", "d" >>, << "\n", "Q", "A", ":", " ", "x" >>,
       << "T", "r", "a", "n", "s", "c", "r", "i", "p", "t", ":", " " >>, << "C", "o", "n", "v", "e", "r", "s", "a", "t", "i", "o", "n", ":", " " >>, << "\n", "R", "e", "s", "o", "l", "u", "t", "i", "o", "n", ":", " ", "r" >>, << "n", "o", "t", "e" >> >>

\* the most pieces in a section
MaxPieces == 3

\* the sections of at most n pieces
RECURSIVE ConversationTexts(_)
ConversationTexts(n) ==
    IF n = 0 THEN { << >> }
    ELSE ConversationTexts(n - 1)
         \cup { t \o ConversationPieces[k] :
                t \in ConversationTexts(n - 1), k \in 1..Len(ConversationPieces) }

InitConversation ==
    /\ pc = "section"
    /\ text \in ConversationTexts(MaxPieces)
    /\ call_number = 1
    /\ record = Idle
    /\ NoMask /\ NoParse /\ NoBatch /\ NoWeb /\ NoClean /\ NoFile /\ NoDisk

NextConversation == ParseSingleCall

SpecConversation == InitConversation /\ [][NextConversation]_vars

(***************************************************************************)
(* C23: the order of the branches of the conversation body                 *)
(***************************************************************************)
\* the section has a label 'transcript:' or 'conversation:' with a body
Labelled(t) ==
    \/ GroupSearch(conversation_patterns[1], t, DOTALL_IGNORECASE).found
    \/ GroupSearch(conversation_patterns[2], t, DOTALL_IGNORECASE).found

\* the agent/customer pairs of the section
Pairs(t) == FindAll(agent_customer_pattern, t, DOTALL_IGNORECASE)

\* C23: the conversation body of a section without 'transcript:' and
\* 'conversation:' label that holds several agent/customer pairs is those
\* pairs joined by blank lines
C23_PairsJoined ==
    (pc = "record" /\ ~Labelled(text) /\ Len(Pairs(text)) >= 2)
    => record.transcript = JoinMatches(text, Pairs(text), 1)

\* C23, why: wherever there is a pair, the third of the conversation patterns
\* matches, and the body is its block from the first 'agent:' on
C23_AgentBlockFirst ==
    (pc = "record" /\ ~Labelled(text) /\ Pairs(text) # << >>)
    => /\ GroupSearch(conversation_patterns[3], text, DOTALL_IGNORECASE).found
       /\ record.transcript =
              Strip(GroupSearch(conversation_patterns[3], text, DOTALL_IGNORECASE).group1)

\* C23: a section with two pairs and the line of another speaker between
\* them, whose body is the whole block
C23_WholeBlock ==
    /\ pc = "record"
    /\ text = << "A", "g", "e", "n", "t", ":", " ", "a", "\n", "C", "u", "s", "t", "o", "m", "e", "r", ":", " ", "b", "\n", "Q", "A", ":", " ", "x", "\n", "A", "g", "e", "n", "t", ":", " ", "c", "\n", "C", "u", "s", "t", "o", "m", "e", "r", ":", " ", "d" >>
    /\ Len(Pairs(text)) = 2
    /\ record.transcript = text
(***************************************************************************)
(* The call_id of a section, extracted and then masked                     *)
(***************************************************************************)
\* the pieces the sections are made of: ids with the digits of a phone
\* number and of a ZIP code, ids behind 'Call' and 'ID:', a channel word,
\* a phone number
IdPieces ==
    << << "T", "W", "_", "A", "P", "P", "_", "5", "5", "5", "1", "2", "3", "4", "5", "6", "7" >>, << "t", "w", "_", "w", "e", "b", "_", "1", "2", "3", "4", "5" >>, << "C", "a", "l", "l", " ", "a", "b", "_", "c", "d", "_", "1", "2" >>, << "I", "D", ":", " ", "T", "W", "_", "9" >>, << "I", "D", ":", " ", "X", "_", "1" >>,
       << "C", "a", "l", "l", " ", "a", "_", "T", "W", "_", "5" >>, << "w", "e", "b" >>, << "5", "5", "5", "1", "2", "3", "4", "5", "6", "7" >> >>

\* the most pieces in a section
MaxIdPieces == 2

\* the sections of at most n pieces, a blank between two pieces
RECURSIVE IdTexts(_)
IdTexts(n) ==
    IF n = 0 THEN { << >> }
    ELSE IdTexts(n - 1)
         \cup { (IF t = << >> THEN t ELSE t \o << " " >>) \o IdPieces[k] :
                t \in IdTexts(n - 1), k \in 1..Len(IdPieces) }

\* the sequence indices a section is parsed with: of one, four and five digits
IdCallNumbers == { 7, 1234, 12345 }

InitCallId ==
    /\ pc = "section"
    /\ text \in IdTexts(MaxIdPieces)
    /\ call_number \in IdCallNumbers
    /\ record = Idle
    /\ masked = Idle
    /\ remasked = Idle
    /\ NoParse /\ NoBatch /\ NoWeb /\ NoClean /\ NoFile /\ NoDisk

\* masked, found_pii = self._mask_single_transcript(transcript)
MaskSingleTranscript ==
    /\ pc = "record"
    /\ masked' = _mask_single_transcript(record)
    /\ pc' = "masked_record"
    /\ UNCHANGED << text, remasked, extractVars, parseVars, batchVars, webVars, cleanVars, fileVars, diskVars >>

NextCallId == ParseSingleCall \/ MaskSingleTranscript

SpecCallId == InitCallId /\ [][NextCallId]_vars

(***************************************************************************)
(* C26: the call_id is preserved by masking                                *)
(***************************************************************************)
\* id is of the form TW_<WORD>_<NUM>: the whole of it matches r'TW_\w+_\d+'
TwForm(id) ==
    Search(Cat(<< Whole(call_id_patterns[1]), Eos >>), id, IGNORECASE) = << 1, Len(id) + 1 >>

C26_WitnessSynthesized ==
    /\ pc = "masked_record"
    /\ record.call_id = << "T", "W", "_", "W", "E", "B", "_", "1", "2", "3", "4", "5" >>
    /\ masked.masked.call_id = record.call_id

(***************************************************************************)
(* C30: the prefix of the call_id                                          *)
(***************************************************************************)
\* id is one token without white space that begins with 'TW_' in any case
TwToken(id) ==
    /\ Len(id) >= 3
    /\ StrUpper(SubSeq(id, 1, 3)) = TW
    /\ \A k \in 1..Len(id) : id[k] \notin Space

\* C30: every call_id the extractor returns, whichever explicit pattern has
\* matched and whichever branch has synthesized it, is one token without
\* white space that begins with 'TW_' in any case
C30_CallIdPrefix == pc = "record" => TwToken(record.call_id)

\* C30, the part that holds: a call_id found by the first pattern, or
\* synthesized, is such a token
C30_FirstPatternOrSynthesized ==
    (pc = "record" /\ ( \/ GroupSearch(call_id_patterns[1], text, IGNORECASE).found
                        \/ NoExplicitId(text) ))
    => TwToken(record.call_id)

\* C30: 'ID: TW_9' has been returned as the call_id of the section 'ID: TW_9'
C30_LabelKept ==
    /\ pc = "record"
    /\ text = << "I", "D", ":", " ", "T", "W", "_", "9" >>
    /\ record.call_id = << "I", "D", ":", " ", "T", "W", "_", "9" >>
(***************************************************************************)
(* Parsing a document: _parse_text_content, step by step                   *)
(***************************************************************************)
\* n characters of running text that no pattern matches
FillerWords == << "l", "o", "r", "e", "m", " ", "i", "p", "s", "u", "m", " " >>
Filler(n) ==
    [ k \in 1..n |-> IF k = n THEN "." ELSE FillerWords[((k - 1) % Len(FillerWords)) + 1] ]

\* a call of n characters: an exchange, a severity line, running text
CallHead == << "A", "g", "e", "n", "t", ":", " ", "h", "e", "l", "l", "o", ".", "\n", "C", "u", "s", "t", "o", "m", "e", "r", ":", " ", "t", "h", "e", " ", "w", "e", "b", " ", "p", "a", "g", "e", " ", "f", "a", "i", "l", "s", ".", "\n", "S", "e", "v", "e", "r", "i", "t", "y", ":", " ", "H", "i", "g", "h", "\n" >>
CallBody(n) == CallHead \o Filler(n - Len(CallHead))

\* the blocks the documents are made of: a call after a TW marker, a call
\* after a 'Call TW' marker, a call after a run of '=', and a short call
\* after a 'Section' heading
SegmentBlocks ==
    << << "T", "W", "_", "W", "E", "B", "_", "0", "0", "1", "\n" >> \o CallBody(305),
       << "\n", "C", "a", "l", "l", " ", "T", "W", "_", "A", "P", "P", "_", "0", "0", "2", "\n" >> \o CallBody(305),
       << "\n", "=", "=", "=", "=", "=", "\n" >> \o CallBody(305),
       << "\n", "S", "e", "c", "t", "i", "o", "n", " ", "1", "\n" >> \o CallBody(150) >>

\* the most blocks in a document
MaxBlocks == 2

\* the documents of at most n blocks
RECURSIVE Concats(_)
Concats(n) ==
    IF n = 0 THEN { << >> }
    ELSE Concats(n - 1)
         \cup { d \o SegmentBlocks[k] : d \in Concats(n - 1), k \in 1..Len(SegmentBlocks) }

\* documents without a separator, around 100 characters, bare and padded
\* with white space
ShortDocs ==
    { pad \o Filler(n) \o pad : n \in { 99, 100, 101 }, pad \in { << >>, << " ", "\n" >> } }

Docs == ShortDocs \cup Concats(MaxBlocks)

InitSegment ==
    /\ pc = "separators"
    /\ content \in Docs
    /\ i = 1
    /\ calls = << >>
    /\ best_split = 0
    /\ parsed_calls = << >>
    /\ text = Idle
    /\ NoMask /\ NoExtract /\ NoBatch /\ NoWeb /\ NoClean /\ NoFile /\ NoDisk

\* one turn of: for i, pattern in enumerate(potential_separators)
TrySeparator ==
    /\ pc = "separators"
    /\ i <= Len(potential_separators)
    /\ LET valid_splits == ValidSplits(potential_separators[i], content)
       IN  IF Better(valid_splits, calls)
           THEN calls' = valid_splits /\ best_split' = i
           ELSE UNCHANGED << calls, best_split >>
    /\ i' = i + 1
    /\ UNCHANGED << pc, content, parsed_calls, text, maskVars, extractVars, batchVars, webVars, cleanVars, fileVars, diskVars >>

\* after the loop: if not calls: calls = [content]
AfterSeparators ==
    /\ pc = "separators"
    /\ i > Len(potential_separators)
    /\ calls' = OrWhole(calls, content)
    /\ i' = 1
    /\ pc' = "sections"
    /\ UNCHANGED << content, best_split, parsed_calls, text, maskVars, extractVars, batchVars, webVars, cleanVars, fileVars, diskVars >>

\* one turn of: for i, call_text in enumerate(calls); the i of the model is
\* the i + 1 of the code, the call_number
ParseCall ==
    /\ pc = "sections"
    /\ i <= Len(calls)
    /\ parsed_calls' = IF TooShort(calls[i]) THEN parsed_calls
                       ELSE Append(parsed_calls, _parse_single_call(calls[i], i))
    /\ i' = i + 1
    /\ pc' = IF i = Len(calls) THEN "parsed" ELSE "sections"
    /\ UNCHANGED << content, calls, best_split, text, maskVars, extractVars, batchVars, webVars, cleanVars, fileVars, diskVars >>

NextSegment == TrySeparator \/ AfterSeparators \/ ParseCall

SpecSegment == InitSegment /\ [][NextSegment]_vars

(***************************************************************************)
(* C5                                                                      *)
(***************************************************************************)
\* the trimmed pieces longer than 300 characters that the k-th candidate
\* separator cuts the document into
LongPieces(k) ==
    LET pieces == Split(potential_separators[k], content, IGNORECASE)
        long == SelectSeq(pieces, LAMBDA s : Len(Strip(s)) > 300)
    IN  [ j \in 1..Len(long) |-> Strip(long[j]) ]

Candidates == 1..Len(potential_separators)

\* the k-th candidate has the most long pieces, and is the earliest that has
Wins(k) ==
    /\ \A j \in Candidates : Len(LongPieces(j)) <= Len(LongPieces(k))
    /\ \A j \in 1..(k - 1) : Len(LongPieces(j)) < Len(LongPieces(k))

\* the separator loop is over, the section loop has not begun
Segmented == pc = "sections" /\ i = 1

\* C5: the split used is that of a candidate separator whose number of trimmed
\* pieces longer than 300 characters is maximal over the seven candidates, and
\* of the earliest such candidate when several reach the maximum.
C5_SegmentationWinner ==
    (Segmented /\ \E k \in Candidates : LongPieces(k) # << >>) =>
        /\ best_split \in Candidates
        /\ Wins(best_split)
        /\ calls = LongPieces(best_split)

\* C5, witness: two candidates reach the maximum with different pieces, and
\* the split of the earlier one is used
C5_Witness ==
    /\ Segmented
    /\ \E k \in Candidates :
           /\ k > best_split
           /\ Len(LongPieces(k)) = Len(calls)
           /\ LongPieces(k) # calls
    /\ Len(calls) = 2
    /\ Wins(best_split)
    /\ calls = LongPieces(best_split)

(***************************************************************************)
(* C6                                                                      *)
(***************************************************************************)
\* TW_<CHANNEL>_<NUM>
CanonicalMarker ==
    Cat(<< Lit(<< "T", "W", "_" >>), Plus(Set(Upper)), Lit(<< "_" >>), Plus(Set(Digit)) >>)

Markers == FindAll(CanonicalMarker, content, NOFLAGS)

\* the k-th block: from its marker to the next marker, or to the end
BlockEnd(k) == IF k < Len(Markers) THEN Markers[k + 1][1] - 1 ELSE Len(content)
Block(k) == SubSeq(content, Markers[k][1], BlockEnd(k))
\* the text of the k-th block after its marker
BlockBody(k) == SubSeq(content, Markers[k][2], BlockEnd(k))

\* the document is a concatenation of blocks, each introduced by a marker and
\* longer than 300 characters
MarkedBlocks ==
    /\ Markers # << >>
    /\ Markers[1][1] = 1
    /\ \A k \in 1..Len(Markers) : Len(Block(k)) > 300

\* C6 (as stated): a document that is the concatenation of N blocks, each
\* longer than 300 characters and introduced by a TW_<CHANNEL>_<NUM> marker,
\* is cut into exactly N sections and gives exactly N records, whatever other
\* separator-like text the blocks hold.
C6_AsStated ==
    (pc = "parsed" /\ MarkedBlocks) =>
        /\ Len(calls) = Len(Markers)
        /\ Len(parsed_calls) = Len(Markers)

\* the separator r'tw_\w+_\d+' matches at the markers and nowhere else, the
\* text after each marker is longer than 300 characters once trimmed, and no
\* other candidate separator gives more long pieces than there are markers
WellSeparated ==
    /\ MarkedBlocks
    /\ FindAll(potential_separators[2], content, IGNORECASE) = Markers
    /\ \A k \in 1..Len(Markers) : Len(Strip(BlockBody(k))) > 300
    /\ \A j \in Candidates : Len(LongPieces(j)) <= Len(Markers)

\* C6 (as amended): a document that is the concatenation of N blocks, each
\* introduced by a TW_<CHANNEL>_<NUM> marker followed by more than 300
\* characters of trimmed text, in which the marker pattern matches nowhere
\* else and which no other candidate separator cuts into more than N long
\* pieces, is cut into exactly N sections and gives exactly N records.
C6_SegmentCount ==
    (pc = "parsed" /\ WellSeparated) =>
        /\ Len(calls) = Len(Markers)
        /\ Len(parsed_calls) = Len(Markers)

\* C6, witness: two marked blocks, the second after a 'Call' that the first
\* candidate separator matches too, have been parsed into two records
C6_Witness ==
    /\ pc = "parsed"
    /\ WellSeparated
    /\ Len(Markers) = 2
    /\ best_split = 1
    /\ Len(calls) = 2
    /\ Len(parsed_calls) = 2

(***************************************************************************)
(* C7                                                                      *)
(***************************************************************************)
\* no candidate separator gives a piece longer than 300 characters
NoLongPiece == \A k \in Candidates : LongPieces(k) = << >>

\* C7: when no candidate separator gives a piece longer than 300 characters,
\* the whole document is the one section, with sequence index 1; it gives one
\* record when its trimmed length is at least 100 and none when it is shorter.
C7_SingleSection ==
    (pc = "parsed" /\ NoLongPiece) =>
        /\ calls = << content >>
        /\ Len(Strip(content)) >= 100 => parsed_calls = << _parse_single_call(content, 1) >>
        /\ Len(Strip(content)) < 100 => parsed_calls = << >>

\* C7, witness: a document of 99 characters between white space that brings
\* it over 100 has been parsed, and no record made
C7_Witness ==
    /\ pc = "parsed"
    /\ NoLongPiece
    /\ Len(content) >= 100
    /\ Len(Strip(content)) = 99
    /\ calls = << content >>
    /\ parsed_calls = << >>

\* C7, witness of the record: a document of exactly 100 characters has been
\* parsed into one record, numbered 1
C7_WitnessRecord ==
    /\ pc = "parsed"
    /\ NoLongPiece
    /\ Len(Strip(content)) = 100
    /\ Len(parsed_calls) = 1
    /\ parsed_calls[1].call_id = TW \o UNKNOWN \o << "_", "0", "0", "1" >>

(***************************************************************************)
(* Parsing, cleaning and masking a document                                *)
(***************************************************************************)
\* head, then running text up to n characters
Padded(head, n) == head \o Filler(n - Len(head))

\* the calls the documents of the pipeline are made of, each after its
\* marker: a web call, a web call in which the customer has paid a bill, and
\* a call with labelled fields
PipelineBlocks ==
    << << "T", "W", "_", "W", "E", "B", "_", "0", "0", "1", "\n" >>
         \o Padded(<< "A", "g", "e", "n", "t", ":", " ", "H", "e", "l", "l", "o", ",", " ", "h", "o", "w", " ", "c", "a", "n", " ", "I", " ", "h", "e", "l", "p", "?", "\n", "C", "u", "s", "t", "o", "m", "e", "r", ":", " ", "5", "5", "5", "-", "9", "8", "7", "-", "6", "5", "4", "3", " ", "i", "s", " ", "m", "y", " ", "n", "u", "m", "b", "e", "r", ",", " ", "t", "h", "e", " ", "w", "e", "b", " ", "p", "a", "g", "e", " ", "f", "a", "i", "l", "s", ".", "\n", "S", "e", "v", "e", "r", "i", "t", "y", ":", " ", "H", "i", "g", "h", "\n" >>, 305),
       << "T", "W", "_", "W", "E", "B", "_", "0", "0", "2", "\n" >>
         \o Padded(<< "A", "g", "e", "n", "t", ":", " ", "H", "e", "l", "l", "o", ".", "\n", "C", "u", "s", "t", "o", "m", "e", "r", ":", " ", "5", "5", "5", "-", "9", "8", "7", "-", "6", "5", "4", "3", ",", " ", "I", " ", "p", "a", "i", "d", " ", "m", "y", " ", "b", "i", "l", "l", " ", "o", "n", " ", "t", "h", "e", " ", "w", "e", "b", ".", "\n", "S", "e", "v", "e", "r", "i", "t", "y", ":", " ", "H", "i", "g", "h", "\n" >>, 305),
       << "C", "a", "l", "l", " ", "T", "W", "_", "A", "P", "P", "_", "0", "0", "3", "\n" >>
         \o Padded(<< "D", "a", "t", "e", ":", " ", "o", "n", " ", "2", "0", "2", "4", "-", "0", "8", "-", "0", "1", "\n", "C", "a", "t", "e", "g", "o", "r", "y", ":", " ", "b", "i", "l", "l", "i", "n", "g", " ", "d", "i", "s", "p", "u", "t", "e", " ", "S", "e", "v", "e", "r", "i", "t", "y", ":", " ", "L", "o", "w", "\n", "T", "r", "a", "n", "s", "c", "r", "i", "p", "t", ":", " ", "A", "g", "e", "n", "t", ":", " ", "h", "i", "\n", "C", "u", "s", "t", "o", "m", "e", "r", ":", " ", "m", "a", "i", "l", " ", "a", "@", "b", ".", "c", "o", "m", "\n", "R", "e", "s", "o", "l", "u", "t", "i", "o", "n", ":", " ", "r", "e", "f", "u", "n", "d", " ", "I", "m", "p", "a", "c", "t", ":", " ", "n", "o", "n", "e", "\n" >>, 305) >>

\* the documents of one call and of two
PipelineDocs ==
    { a \o PipelineBlocks[k] :
        a \in { << >> } \cup Range(PipelineBlocks), k \in 1..Len(PipelineBlocks) }

InitPipeline ==
    /\ pc = "separators"
    /\ content \in PipelineDocs
    /\ i = 1
    /\ calls = << >>
    /\ best_split = 0
    /\ parsed_calls = << >>
    /\ cleaned_transcripts = << >>
    /\ masked_transcripts = << >>
    /\ text = Idle
    /\ NoMask /\ NoExtract /\ NoWeb /\ NoClean /\ NoFile /\ NoDisk

\* one turn of the loop of clean_parsed_data over the parsed transcripts
CleanTranscript ==
    /\ pc = "parsed"
    /\ Len(cleaned_transcripts) < Len(parsed_calls)
    /\ cleaned_transcripts' =
           Append(cleaned_transcripts,
                  _clean_single_transcript(parsed_calls[Len(cleaned_transcripts) + 1]))
    /\ pc' = IF Len(cleaned_transcripts) + 1 = Len(parsed_calls) THEN "cleaned" ELSE "parsed"
    /\ UNCHANGED << text, maskVars, extractVars, parseVars, masked_transcripts, webVars, cleanVars, fileVars, diskVars >>

\* one turn of the loop of mask_data over the cleaned transcripts
MaskTranscript ==
    /\ pc = "cleaned"
    /\ Len(masked_transcripts) < Len(cleaned_transcripts)
    /\ masked_transcripts' =
           Append(masked_transcripts,
                  _mask_single_transcript(cleaned_transcripts[Len(masked_transcripts) + 1]).masked)
    /\ pc' = IF Len(masked_transcripts) + 1 = Len(cleaned_transcripts) THEN "masked" ELSE "cleaned"
    /\ UNCHANGED << text, maskVars, extractVars, parseVars, cleaned_transcripts, webVars, cleanVars, fileVars, diskVars >>

NextPipeline == TrySeparator \/ AfterSeparators \/ ParseCall \/ CleanTranscript \/ MaskTranscript

SpecPipeline == InitPipeline /\ [][NextPipeline]_vars

(***************************************************************************)
(* C4                                                                      *)
(***************************************************************************)
\* TW_WEB_<NUM>
WebMarker == Cat(<< Lit(<< "T", "W", "_", "W", "E", "B", "_" >>), Plus(Set(Digit)) >>)

\* 'Agent: ... Customer: <DDD-DDD-DDDD> ...'
Exchange ==
    Cat(<< Lit(<< "A", "g", "e", "n", "t", ":" >>), Rep(AnyChar, 0, -1, FALSE), Lit(<< "C", "u", "s", "t", "o", "m", "e", "r", ":" >>), Star(Set(Space)),
           DashedPhone >>)

\* a line 'Severity: High'
SeverityHighLine == Cat(<< Bol, Lit(<< "S", "e", "v", "e", "r", "i", "t", "y", ":", " ", "H", "i", "g", "h" >>), Eos >>)

\* s is a section of the end-to-end scenario
ScenarioSection(s) ==
    /\ Len(Strip(s)) > 300
    /\ Search(Exchange, s, Flags(FALSE, TRUE, FALSE))[1] # 0
    /\ Search(SeverityHighLine, s, Flags(FALSE, FALSE, TRUE))[1] # 0
    /\ Contains(StrLower(s), << "w", "e", "b" >>)

\* the document is two such sections, each after a TW_WEB_<NUM> marker
ScenarioDocument ==
    LET pieces == Split(WebMarker, content, NOFLAGS)
    IN  /\ Len(pieces) = 3
        /\ pieces[1] = << >>
        /\ ScenarioSection(pieces[2])
        /\ ScenarioSection(pieces[3])

\* C4 (as stated): a document of two sections longer than 300 characters,
\* each after a TW_WEB_<NUM> marker and holding an 'Agent: ... Customer:
\* <phone> ...' exchange, a 'Severity: High' line and the keyword 'web', gives
\* after parse, clean and mask exactly 2 records, each with channel 'Web
\* Portal', severity 'High', and [PHONE_NUMBER] for the phone number in its
\* transcript.
C4_EndToEnd ==
    (pc = "masked" /\ ScenarioDocument) =>
        /\ Len(masked_transcripts) = 2
        /\ \A k \in 1..Len(masked_transcripts) :
               /\ masked_transcripts[k].channel = "Web Portal"
               /\ masked_transcripts[k].severity = High
               /\ Contains(masked_transcripts[k].transcript, PHONE_NUMBER)
               /\ Search(DashedPhone, masked_transcripts[k].transcript, IGNORECASE)[1] = 0

\* a document of the scenario for which the pipeline gives what C4 states
C4_ScenarioMet ==
    /\ pc = "masked"
    /\ ScenarioDocument
    /\ Len(masked_transcripts) = 2
    /\ \A k \in 1..2 :
           /\ masked_transcripts[k].channel = "Web Portal"
           /\ masked_transcripts[k].severity = High
           /\ Contains(masked_transcripts[k].transcript, PHONE_NUMBER)

(***************************************************************************)
(* C9                                                                      *)
(***************************************************************************)
\* no two records of the batch have the same call_id
UniqueCallIds(batch) ==
    \A a, b \in 1..Len(batch) : a # b => batch[a].call_id # batch[b].call_id

\* C9 (as stated): no two records parsed from one document have the same
\* call_id, and none have after the batch is cleaned and masked.
C9_UniqueCallIds ==
    /\ UniqueCallIds(parsed_calls)
    /\ UniqueCallIds(cleaned_transcripts)
    /\ UniqueCallIds(masked_transcripts)

(***************************************************************************)
(* The web applications: what /generate hands to the test-case generator   *)
(***************************************************************************)
\* data/processed/parsed_transcripts.json: saved when the parser has parsed
\* the document into at least one record
parsed_transcripts_json ==
    [ exists      |-> pc \in { "parsed", "cleaned", "masked" } /\ parsed_calls # << >>,
      transcripts |-> parsed_calls ]

\* data/processed/cleaned_transcripts.json: saved at the end of clean_parsed_data
cleaned_transcripts_json ==
    [ exists      |-> pc \in { "cleaned", "masked" },
      transcripts |-> cleaned_transcripts ]

\* data/processed/masked_transcripts.json: saved at the end of mask_data
masked_transcripts_json ==
    [ exists      |-> pc = "masked",
      transcripts |-> masked_transcripts ]

\* app.py, load_available_transcripts: the transcripts of the first file that
\* exists, in the order parsed, cleaned, masked
load_available_transcripts ==
    IF parsed_transcripts_json.exists THEN parsed_transcripts_json.transcripts
    ELSE IF cleaned_transcripts_json.exists THEN cleaned_transcripts_json.transcripts
    ELSE IF masked_transcripts_json.exists THEN masked_transcripts_json.transcripts
    ELSE << >>

\* app_fixed.py, load_existing_data: the transcripts of the first file that
\* exists and holds any, in the order masked, cleaned, parsed
load_existing_data ==
    IF masked_transcripts_json.exists /\ masked_transcripts_json.transcripts # << >>
    THEN masked_transcripts_json.transcripts
    ELSE IF cleaned_transcripts_json.exists /\ cleaned_transcripts_json.transcripts # << >>
    THEN cleaned_transcripts_json.transcripts
    ELSE IF parsed_transcripts_json.exists THEN parsed_transcripts_json.transcripts
    ELSE << >>

\* the value of a filter that selects everything
All == "all"
AllText == << "a", "l", "l" >>

\* the filters of a request
Filters ==
    [ channel  : { All, "Web Portal" },
      severity : { AllText, High },
      brand    : { All, "Total Wireless" } ]

\* app.py, filter_transcripts: by channel and severity; the brand is not looked at
filter_transcripts(transcripts, filters) ==
    SelectSeq(transcripts, LAMBDA t :
        /\ filters.channel # All => t.channel = filters.channel
        /\ filters.severity # AllText => t.severity = filters.severity)

\* app_fixed.py, filter_transcripts: by brand too, which no record has
filter_transcripts_fixed(transcripts, filters) ==
    SelectSeq(transcripts, LAMBDA t :
        /\ filters.channel # All => t.channel = filters.channel
        /\ filters.severity # AllText => t.severity = filters.severity
        /\ filters.brand = All)

InitWeb ==
    /\ pc = "separators"
    /\ content \in PipelineDocs
    /\ i = 1
    /\ calls = << >>
    /\ best_split = 0
    /\ parsed_calls = << >>
    /\ cleaned_transcripts = << >>
    /\ masked_transcripts = << >>
    /\ llm_input = << >>
    /\ text = Idle
    /\ NoMask /\ NoExtract /\ NoClean /\ NoFile /\ NoDisk

\* app.py, POST /generate: the transcripts loaded and filtered are saved to a
\* temporary file and handed to GroqTestCaseGenerator.generate_test_cases
generate_test_cases(filters) ==
    /\ filter_transcripts(load_available_transcripts, filters) # << >>
    /\ llm_input' = filter_transcripts(load_available_transcripts, filters)
    /\ UNCHANGED << pc, text, maskVars, extractVars, parseVars, batchVars, cleanVars, fileVars, diskVars >>

\* app_fixed.py, POST /generate, with the AI components available
generate(filters) ==
    /\ filter_transcripts_fixed(load_existing_data, filters) # << >>
    /\ llm_input' = filter_transcripts_fixed(load_existing_data, filters)
    /\ UNCHANGED << pc, text, maskVars, extractVars, parseVars, batchVars, cleanVars, fileVars, diskVars >>

NextWeb ==
    \/ TrySeparator \/ AfterSeparators \/ ParseCall \/ CleanTranscript \/ MaskTranscript
    \/ \E filters \in Filters : generate_test_cases(filters)
    \/ \E filters \in Filters : generate(filters)

SpecWeb == InitWeb /\ [][NextWeb]_vars

(***************************************************************************)
(* C3                                                                      *)
(***************************************************************************)
\* C3 (as stated): every transcript handed to the test-case generator has been
\* through the PII masker before: it is one of the records that mask_data has
\* made, whatever files are on disk.
C3_MaskBeforeLLM ==
    \A k \in 1..Len(llm_input) : llm_input[k] \in Range(masked_transcripts)

\* the web application hands the generator the masked records when the
\* masked file is the one it loads
C3_MaskedSent ==
    /\ pc = "masked"
    /\ llm_input # << >>
    /\ \A k \in 1..Len(llm_input) : llm_input[k] \in Range(masked_transcripts)

\* with the masked file on disk, app.py has handed the generator the parsed
\* records, a phone number in the first transcript
C3_UnmaskedSent ==
    /\ pc = "masked"
    /\ llm_input = parsed_calls
    /\ llm_input # masked_transcripts
    /\ Search(DashedPhone, llm_input[1].transcript, IGNORECASE)[1] # 0


(***************************************************************************)
(* Parsing one section and cleaning its record                             *)
(***************************************************************************)
\* the lines and words the labelled sections are made of
LabelledWords ==
    << << "h", "e", "l", "l", "o" >>,
       << "S", "e", "v", "e", "r", "i", "t", "y", ":", " ", "H", "i", "g", "h" >>,
       << "p", "r", "i", "o", "r", "i", "t", "y", ":", " ", "l", "o", "w" >>,
       << "L", "e", "v", "e", "l", ":", " ", "3" >>,
       << "s", "e", "v", "e", "r", "i", "t", "y", " ", "h", "i", "g", "h" >>,
       << "C", "a", "t", "e", "g", "o", "r", "y", ":", " ", "p", "l", "a", "n", " ", "c", "h", "a", "n", "g", "e" >>,
       << "A", "g", "e", "n", "t", ":", " ", "h", "i" >>,
       << "w", "e", "b", " ", "p", "o", "r", "t", "a", "l" >>,
       << "C", "u", "s", "t", "o", "m", "e", "r", ":", " ", "o", "k" >>,
       << "j", "o", "u", "r", "n", "e", "y", ":", " ", "t", "a", "n", "g", "i", "b", "l", "e" >> >>

\* the most lines and words in a labelled section
MaxLabelled == 2

\* the sections of at most n of them, a blank or a line break between two
RECURSIVE LabelledSections(_)
LabelledSections(n) ==
    IF n = 0 THEN { << >> }
    ELSE LabelledSections(n - 1)
         \cup { (IF t = << >> THEN t ELSE t \o sep) \o LabelledWords[k] :
                t \in LabelledSections(n - 1), k \in 1..Len(LabelledWords),
                sep \in { << " " >>, << "\n" >> } }

InitSection ==
    /\ pc = "section"
    /\ text \in LabelledSections(MaxLabelled)
    /\ call_number = 1
    /\ record = Idle
    /\ raw = Idle
    /\ normalized = Idle
    /\ cleaned = Idle
    /\ NoMask /\ NoParse /\ NoBatch /\ NoWeb /\ NoFile /\ NoDisk

\* cleaned = self._clean_single_transcript(transcript)
CleanSingleTranscript ==
    /\ pc = "record"
    /\ cleaned' = _clean_single_transcript(record)
    /\ pc' = "cleaned_record"
    /\ UNCHANGED << text, raw, normalized, maskVars, extractVars, parseVars, batchVars, webVars, fileVars, diskVars >>

NextSection == ParseSingleCall \/ CleanSingleTranscript

SpecSection == InitSection /\ [][NextSection]_vars

(***************************************************************************)
(* C11                                                                     *)
(***************************************************************************)
\* the section contains none of the labels of the severity
NoSeverityLabel ==
    \A k \in 1..Len(field_patterns.severity) :
        ~Contains(StrLower(text), field_patterns.severity[k])

\* C11 (as stated): the record extracted from a section that contains none
\* of 'severity:', 'priority:', 'level:' has, after normalization, the
\* severity 'Medium'.
C11_SeverityDefault ==
    (pc = "cleaned_record" /\ NoSeverityLabel) => cleaned.severity = Medium

\* a section without a label has been extracted and normalized, and its
\* severity is the empty string
C11_SeverityEmpty ==
    /\ pc = "cleaned_record"
    /\ NoSeverityLabel
    /\ record.severity = << >>
    /\ cleaned.severity = << >>

(***************************************************************************)
(* Normalizing one raw field value                                         *)
(***************************************************************************)
\* the words the raw field values are made of
RawWords ==
    << << "d", "e", "v", "i", "c", "e", " ", "a", "c", "t", "i", "v", "a", "t", "i", "o", "n" >>,
       << "P", "l", "a", "n", " ", "C", "h", "a", "n", "g", "e" >>,
       << "i", "s", "s", "u", "e" >>,
       << "m", "y", " ", "r", "o", "u", "t", "e", "r" >>,
       << "S", "e", "v", "e", "r", "i", "t", "y", ":", " ", "H", "i", "g", "h" >>,
       << "C", "r", "i", "t", "i", "c", "a", "l" >>,
       << "h", "i", "g", "h" >>,
       << "M", "E", "D", "I", "U", "M" >>,
       << "l", "o", "w" >>,
       << "u", "r", "g", "e", "n", "t" >>,
       << "-" >>,
       << "N", "o", "n", "-", "T", "a", "n", "g", "i", "b", "l", "e" >>,
       << "t", "a", "n", "g", "i", "b", "l", "e" >>,
       << "n", "/", "a" >> >>

\* the most words in a raw field value
MaxRawWords == 2

\* the values of at most n words, a blank between two words
RECURSIVE RawValues(_)
RawValues(n) ==
    IF n = 0 THEN { << >> }
    ELSE RawValues(n - 1)
         \cup { (IF t = << >> THEN t ELSE t \o << " " >>) \o RawWords[k] :
                t \in RawValues(n - 1), k \in 1..Len(RawWords) }

\* the values as a record reader may hand them over: bare, or between blanks
InitNormalize ==
    /\ pc = "raw"
    /\ raw \in RawValues(MaxRawWords) \cup { << " " >> \o t \o << " " >> : t \in RawValues(1) }
    /\ normalized = Idle
    /\ cleaned = Idle
    /\ text = Idle
    /\ NoMask /\ NoExtract /\ NoParse /\ NoBatch /\ NoWeb /\ NoFile /\ NoDisk

\* cleaned['category'] = self._clean_category(category)
CleanCategory ==
    /\ pc = "raw"
    /\ normalized' = [ field |-> "category", value |-> _clean_category(raw) ]
    /\ pc' = "normalized"
    /\ UNCHANGED << text, raw, cleaned, maskVars, extractVars, parseVars, batchVars, webVars, fileVars, diskVars >>

\* cleaned['severity'] = self._clean_severity(severity)
CleanSeverity ==
    /\ pc = "raw"
    /\ normalized' = [ field |-> "severity", value |-> _clean_severity(raw) ]
    /\ pc' = "normalized"
    /\ UNCHANGED << text, raw, cleaned, maskVars, extractVars, parseVars, batchVars, webVars, fileVars, diskVars >>

\* cleaned['journey_type'] = self._clean_journey_type(journey_type)
CleanJourneyType ==
    /\ pc = "raw"
    /\ normalized' = [ field |-> "journey_type", value |-> _clean_journey_type(raw) ]
    /\ pc' = "normalized"
    /\ UNCHANGED << text, raw, cleaned, maskVars, extractVars, parseVars, batchVars, webVars, fileVars, diskVars >>

NextNormalize == CleanCategory \/ CleanSeverity \/ CleanJourneyType

SpecNormalize == InitNormalize /\ [][NextNormalize]_vars

\* the function of the field has been applied to raw
Normalized(field) == pc = "normalized" /\ normalized.field = field

(***************************************************************************)
(* C12                                                                     *)
(***************************************************************************)
Unknown == << "U", "n", "k", "n", "o", "w", "n" >>

\* C12 (as stated): normalizing an empty category yields 'Unknown', and the
\* normalized category is never the empty string.
C12_CategoryDefault ==
    Normalized("category") =>
        /\ raw = << >> => normalized.value = Unknown
        /\ normalized.value # << >>

\* the empty category has been normalized, and has stayed empty
C12_EmptyStaysEmpty ==
    /\ Normalized("category")
    /\ raw = << >>
    /\ normalized.value = << >>

(***************************************************************************)
(* C13                                                                     *)
(***************************************************************************)
\* the raw category lower-cased, without contamination and outer white space
Stripped(category) == Strip(RemoveAll(category_contamination, category, 1, IGNORECASE))

\* the places in the table of the keys that the text contains
KeysIn(category_lower) ==
    { k \in 1..Len(category_mapping) : Contains(category_lower, category_mapping[k].key) }

\* the first of them in the order of declaration
FirstKey(category_lower) ==
    CHOOSE k \in KeysIn(category_lower) : \A j \in KeysIn(category_lower) : k <= j

\* C13 (as stated): a raw category whose lower-cased, contamination-stripped
\* text contains a key of the table is normalized to the value of the first
\* such key in the order of the table; an unmatched non-empty one is returned
\* title-cased.
C13_CanonicalCategory ==
    (Normalized("category") /\ raw # << >>) =>
        IF KeysIn(StrLower(Stripped(raw))) # { }
        THEN normalized.value = category_mapping[FirstKey(StrLower(Stripped(raw)))].value
        ELSE normalized.value = StrTitle(Stripped(raw))

\* the part of C13 about the table alone
C13_FirstKeyWins ==
    (Normalized("category") /\ raw # << >> /\ KeysIn(StrLower(Stripped(raw))) # { }) =>
        normalized.value = category_mapping[FirstKey(StrLower(Stripped(raw)))].value

\* a category holding two keys of the table has been given the value of the
\* first of them: 'Plan Change device activation' is 'Plan Change'
C13_TwoKeys ==
    /\ Normalized("category")
    /\ Cardinality(KeysIn(StrLower(Stripped(raw)))) = 2
    /\ normalized.value = category_mapping[1].value

\* an unmatched category has come back in the case it was written in
C13_CaseKept ==
    /\ Normalized("category")
    /\ raw = << "m", "y", " ", "r", "o", "u", "t", "e", "r" >>
    /\ normalized.value = raw

(***************************************************************************)
(* C14                                                                     *)
(***************************************************************************)
\* the levels in the order of priority that C14 states
priority_order == << Critical, High, Medium, Low >>

\* the places in the order of the levels that the text holds
LevelsIn(severity_lower) ==
    { k \in 1..Len(priority_order) : Contains(severity_lower, StrLower(priority_order[k])) }

\* C14 (as stated): the severity is the first of Critical, High, Medium, Low
\* whose word the lower-cased trimmed value contains; an unmatched non-empty
\* value is returned verbatim.
C14_SeverityPriority ==
    (Normalized("severity") /\ raw # << >>) =>
        IF LevelsIn(StrLower(Strip(raw))) # { }
        THEN normalized.value =
                 priority_order[CHOOSE k \in LevelsIn(StrLower(Strip(raw))) :
                                    \A j \in LevelsIn(StrLower(Strip(raw))) : k <= j]
        ELSE normalized.value = raw

\* 'Critical high' has been normalized to 'High'
C14_CriticalLost ==
    /\ Normalized("severity")
    /\ raw = << "C", "r", "i", "t", "i", "c", "a", "l", " ", "h", "i", "g", "h" >>
    /\ normalized.value = High

(***************************************************************************)
(* C15                                                                     *)
(***************************************************************************)
\* C15 (as stated): a journey type that contains 'non-tangible', in any case,
\* is normalized to 'Non-tangible', one that otherwise contains 'tangible' to
\* 'Tangible', and the empty one to 'Non-tangible'.
C15_JourneyType ==
    Normalized("journey_type") =>
        IF Contains(StrLower(raw), StrLower(NonTangible)) THEN normalized.value = NonTangible
        ELSE IF Contains(StrLower(raw), StrLower(Tangible)) THEN normalized.value = Tangible
        ELSE raw = << >> => normalized.value = NonTangible

\* C15 (as stated), reachability: both canonical outputs are produced
C15_NonTangibleReached == Normalized("journey_type") /\ normalized.value = NonTangible

\* 'Non-Tangible' has been normalized to 'Tangible'
C15_NonTangibleLost ==
    /\ Normalized("journey_type")
    /\ raw = << "N", "o", "n", "-", "T", "a", "n", "g", "i", "b", "l", "e" >>
    /\ normalized.value = Tangible

(***************************************************************************)
(* C24: contamination stripping                                            *)
(***************************************************************************)
\* the labels whose fragment _clean_category removes
ContaminationLabels == { << "s", "e", "v", "e", "r", "i", "t", "y", ":" >>, << "t", "r", "a", "n", "s", "c", "r", "i", "p", "t", ":" >>, << "a", "g", "e", "n", "t", ":" >> }

\* s ends with suffix
EndsWith(s, suffix) ==
    Len(s) >= Len(suffix) /\ SubSeq(s, Len(s) - Len(suffix) + 1, Len(s)) = suffix

\* C24: a normalized category holds no fragment from 'Severity:',
\* 'TRANSCRIPT:' or 'Agent:' on, and does not end with the word High, Medium
\* or Low in any case, however many severity words the raw value ends with
C24_NoContamination ==
    Normalized("category") =>
        /\ \A label \in ContaminationLabels : ~Contains(StrLower(normalized.value), label)
        /\ \A word \in { High, Medium, Low } :
              ~EndsWith(StrLower(normalized.value), StrLower(word))

\* C24, the part that holds: no fragment from a label on is left
C24_NoLabelFragment ==
    Normalized("category") =>
        \A label \in ContaminationLabels : ~Contains(StrLower(normalized.value), label)

\* 'high low' has been normalized to 'high'
C24_SeverityWordLeft ==
    /\ Normalized("category")
    /\ raw = << "h", "i", "g", "h", " ", "l", "o", "w" >>
    /\ normalized.value = << "h", "i", "g", "h" >>

(***************************************************************************)
(* clean_parsed_data and mask_data on the files of a batch                 *)
(***************************************************************************)
\* a record of a batch file
Rec(call_id, category, transcript, resolution, root_cause) ==
    [ call_id      |-> call_id,
      channel      |-> << "W", "e", "b", " ", "P", "o", "r", "t", "a", "l" >>,
      date         |-> << "2", "0", "2", "4", "-", "0", "8", "-", "0", "1" >>,
      category     |-> category,
      severity     |-> High,
      journey_type |-> Tangible,
      transcript   |-> transcript,
      resolution   |-> resolution,
      impact       |-> << >>,
      root_cause   |-> root_cause,
      raw_text_length |-> 350 ]

\* the record without one of its keys
Without(r, key) == [ f \in DOMAIN r \ { key } |-> r[f] ]

\* the records the batch files are made of: one with a phone number, an
\* e-mail address and a port request, one with a phone number as its call_id,
\* one without the key 'call_id', one without the key 'root_cause'
BatchRecords ==
    << Rec(<< "T", "W", "_", "W", "E", "B", "_", "0", "0", "1" >>, << "P", "l", "a", "n", " ", "C", "h", "a", "n", "g", "e" >>, << "C", "a", "l", "l", " ", "5", "5", "5", "-", "1", "2", "3", "-", "4", "5", "6", "7", " ", "o", "r", " ", "m", "a", "i", "l", " ", "a", "@", "b", ".", "c", "o", "m" >>,
           << "p", "o", "r", "t", " ", "r", "e", "q", "u", "e", "s", "t", ":", " ", "7", "-", "A" >>, << "r", "i", "n", "g", " ", "5", "5", "5", "-", "1", "2", "3", "-", "4", "5", "6", "7" >>),
       Rec(<< "C", "A", "L", "L", " ", "5", "5", "5", "1", "2", "3", "4", "5", "6", "7" >>, << "P", "r", "o", "m", "o", "t", "i", "o", "n", "a", "l", " ", "O", "f", "f", "e", "r", "s" >>, << "C", "u", "s", "t", "o", "m", "e", "r", " ", "5", "5", "5", "1", "2", "3", "4", "5", "6", "7" >>, << >>, << >>),
       Without(Rec(<< >>, << >>, << "m", "y", " ", "n", "u", "m", "b", "e", "r", " ", "i", "s", " ", "5", "5", "5", "1", "2", "3", "4", "5", "6", "7" >>, << >>, << >>), "call_id"),
       Without(Rec(<< "T", "W", "_", "A", "P", "P", "_", "0", "0", "2" >>, << >>, << "h", "e", "l", "l", "o", " ", "t", "h", "e", "r", "e" >>, << >>, << >>), "root_cause") >>

\* the most records in a batch file
MaxRecords == 2

\* the batches of at most n records
RECURSIVE Batches(_)
Batches(n) ==
    IF n = 0 THEN { << >> }
    ELSE Batches(n - 1)
         \cup { b \o << BatchRecords[k] >> : b \in Batches(n - 1), k \in 1..Len(BatchRecords) }

\* what can be at input_file: nothing, text that is no JSON, a JSON array, a
\* JSON object without the key 'transcripts', a JSON object with a batch
InputFiles ==
    { [ kind |-> "missing" ], [ kind |-> "invalid" ], [ kind |-> "array" ], [ kind |-> "object" ] }
    \cup { [ kind |-> "object", transcripts |-> b ] : b \in Batches(MaxRecords) }

\* what can be at output_file before the call: nothing, or the file of an
\* earlier run
OutputFiles == { [ kind |-> "missing" ], [ kind |-> "old" ] }

InitBatch ==
    /\ pc \in { "clean_parsed_data", "mask_data" }
    /\ input_file \in InputFiles
    /\ output_file \in OutputFiles
    /\ result = Idle
    /\ pii_stats = Idle
    /\ cleaned_transcripts = Idle
    /\ masked_transcripts = Idle
    /\ text = Idle
    /\ NoMask /\ NoExtract /\ NoParse /\ NoWeb /\ NoClean /\ NoDisk

\* with open(input_file) as file: data = json.load(file) succeeds, and data
\* has a method get
Loads(file) == file.kind = "object"

\* transcripts = data.get('transcripts', [])
Transcripts(data) == IF "transcripts" \in DOMAIN data THEN data.transcripts ELSE << >>

\* print(f"... {transcript['call_id']} ...") raises KeyError
NoCallId(transcript) == "call_id" \notin DOMAIN transcript

\* except Exception as e, with the output file truncated first
Failed_truncated(out) == [ kind |-> "object", transcripts |-> << >> ]

\* except Exception as e: print(...); return False. The file at output_file
\* is as it was
Failed(out) == out

\* data.get('metadata', {}).get(key, '')
MetadataOf(data, key) ==
    IF "metadata" \in DOMAIN data /\ key \in DOMAIN data.metadata
    THEN data.metadata[key] ELSE << >>

\* set(call.get('channel', 'Unknown') for call in transcripts)
channels(transcripts) ==
    { IF "channel" \in DOMAIN transcripts[k] THEN transcripts[k].channel ELSE Unknown :
        k \in 1..Len(transcripts) }

\* set(call.get('category', '') for call in transcripts), the empty ones included
categories_unfiltered(transcripts) ==
    { IF "category" \in DOMAIN transcripts[k] THEN transcripts[k].category ELSE << >> :
        k \in 1..Len(transcripts) }

\* set(call.get('category', '') for call in transcripts if call.get('category'))
categories(transcripts) ==
    { transcripts[k].category :
        k \in { j \in 1..Len(transcripts) :
                  "category" \in DOMAIN transcripts[j] /\ transcripts[j].category # << >> } }

\* clean_parsed_data, lines 38-46: the batch that is written
cleaned_data(data, transcripts) ==
    [ kind        |-> "object",
      metadata    |-> [ total_transcripts |-> Len(transcripts),
                        cleaned_at        |-> MetadataOf(data, "parsed_at"),
                        channels          |-> channels(transcripts),
                        categories        |-> categories(transcripts) ],
      transcripts |-> transcripts ]

\* mask_data, lines 96-105: the batch that is written
masked_data(data, transcripts, stats) ==
    [ kind        |-> "object",
      metadata    |-> [ total_transcripts |-> Len(transcripts),
                        masked_at         |-> MetadataOf(data, "cleaned_at"),
                        channels          |-> channels(transcripts),
                        categories        |-> categories(transcripts),
                        pii_removed       |-> stats ],
      transcripts |-> transcripts ]

\* clean_parsed_data, lines 21-31: the input is loaded
CleanDataLoad ==
    /\ pc = "clean_parsed_data"
    /\ IF Loads(input_file)
       THEN /\ cleaned_transcripts' = << >>
            /\ pc' = "clean_parsed_data: loop"
            /\ UNCHANGED << output_file, result >>
       ELSE /\ output_file' = Failed(output_file)
            /\ result' = FALSE
            /\ pc' = "clean_parsed_data: returned"
            /\ UNCHANGED cleaned_transcripts
    /\ UNCHANGED << text, input_file, pii_stats, masked_transcripts, maskVars, extractVars, parseVars, webVars, cleanVars, diskVars >>

\* clean_parsed_data, lines 32-35: one turn of the loop
CleanDataTurn ==
    /\ pc = "clean_parsed_data: loop"
    /\ Len(cleaned_transcripts) < Len(Transcripts(input_file))
    /\ cleaned_transcripts' =
           Append(cleaned_transcripts,
                  _clean_single_transcript(Transcripts(input_file)[Len(cleaned_transcripts) + 1]))
    /\ IF NoCallId(Transcripts(input_file)[Len(cleaned_transcripts) + 1])
       THEN /\ output_file' = Failed(output_file)
            /\ result' = FALSE
            /\ pc' = "clean_parsed_data: returned"
       ELSE UNCHANGED << pc, output_file, result >>
    /\ UNCHANGED << text, input_file, pii_stats, masked_transcripts, maskVars, extractVars, parseVars, webVars, cleanVars, diskVars >>

\* clean_parsed_data, lines 37-52: the cleaned batch is written
CleanDataSave ==
    /\ pc = "clean_parsed_data: loop"
    /\ Len(cleaned_transcripts) = Len(Transcripts(input_file))
    /\ output_file' = cleaned_data(input_file, cleaned_transcripts)
    /\ result' = TRUE
    /\ pc' = "clean_parsed_data: returned"
    /\ UNCHANGED << text, input_file, pii_stats, batchVars, maskVars, extractVars, parseVars, webVars, cleanVars, diskVars >>

\* mask_data, lines 68-81: the input is loaded
MaskDataLoad ==
    /\ pc = "mask_data"
    /\ IF Loads(input_file)
       THEN /\ pii_stats' = ZeroCounts
            /\ masked_transcripts' = << >>
            /\ pc' = "mask_data: loop"
            /\ UNCHANGED << output_file, result >>
       ELSE /\ output_file' = Failed(output_file)
            /\ result' = FALSE
            /\ pc' = "mask_data: returned"
            /\ UNCHANGED << pii_stats, masked_transcripts >>
    /\ UNCHANGED << text, input_file, cleaned_transcripts, maskVars, extractVars, parseVars, webVars, cleanVars, diskVars >>

\* the turn of the loop of mask_data for transcript, masked into r
MaskDataTurnOf(transcript, r) ==
    /\ masked_transcripts' = Append(masked_transcripts, r.masked)
    /\ pii_stats' = AddCounts(pii_stats, r.pii_found)
    /\ IF NoCallId(transcript)
       THEN /\ output_file' = Failed(output_file)
            /\ result' = FALSE
            /\ pc' = "mask_data: returned"
       ELSE UNCHANGED << pc, output_file, result >>

\* mask_data, lines 82-93: one turn of the loop
MaskDataTurn ==
    /\ pc = "mask_data: loop"
    /\ Len(masked_transcripts) < Len(Transcripts(input_file))
    /\ MaskDataTurnOf(Transcripts(input_file)[Len(masked_transcripts) + 1],
                      _mask_single_transcript(Transcripts(input_file)[Len(masked_transcripts) + 1]))
    /\ UNCHANGED << text, input_file, cleaned_transcripts, maskVars, extractVars, parseVars, webVars, cleanVars, diskVars >>

\* mask_data, lines 95-112: the masked batch is written
MaskDataSave ==
    /\ pc = "mask_data: loop"
    /\ Len(masked_transcripts) = Len(Transcripts(input_file))
    /\ output_file' = masked_data(input_file, masked_transcripts, pii_stats)
    /\ result' = TRUE
    /\ pc' = "mask_data: returned"
    /\ UNCHANGED << text, input_file, pii_stats, batchVars, maskVars, extractVars, parseVars, webVars, cleanVars, diskVars >>

NextBatch ==
    \/ CleanDataLoad \/ CleanDataTurn \/ CleanDataSave
    \/ MaskDataLoad \/ MaskDataTurn \/ MaskDataSave

SpecBatch == InitBatch /\ [][NextBatch]_vars

(***************************************************************************)
(* C16                                                                     *)
(***************************************************************************)
\* the masked records of the batch, in order
RECURSIVE MaskedOf(_)
MaskedOf(batch) ==
    IF batch = << >> THEN << >>
    ELSE << _mask_single_transcript(Head(batch)).masked >> \o MaskedOf(Tail(batch))

\* the records of the batch for which the turn of the loop raises nothing
Sound(batch) == SelectSeq(batch, LAMBDA t : ~NoCallId(t))

\* C16 (as stated): when the masking of one record of the batch raises, only
\* that record is left out: mask_data returns True and the output file holds
\* every other record, masked.
C16_FailureIsolation ==
    (pc = "mask_data: returned" /\ Loads(input_file)) =>
        /\ result = TRUE
        /\ output_file.kind = "object"
        /\ output_file.transcripts = MaskedOf(Sound(Transcripts(input_file)))

\* a batch of a record that raises and one that does not has been given to
\* mask_data, which has returned False and written nothing
C16_BatchLost ==
    /\ pc = "mask_data: returned"
    /\ Loads(input_file)
    /\ Len(Transcripts(input_file)) = 2
    /\ Len(Sound(Transcripts(input_file))) = 1
    /\ result = FALSE
    /\ output_file.kind # "object"

(***************************************************************************)
(* C18                                                                     *)
(***************************************************************************)
\* the call has returned
Returned == pc \in { "clean_parsed_data: returned", "mask_data: returned" }

\* the file at input_file is missing or is no JSON
NoInput == input_file.kind \in { "missing", "invalid" }

\* C18: when the input file of clean_parsed_data or of mask_data is missing
\* or is not valid JSON, every step of the call leaves the output file as it
\* is, not created and not modified, and the call returns False; there is no
\* step but the return, so nothing is raised to the caller.
C18_NoInputNoOutput ==
    [][ NoInput => /\ output_file' = output_file
                   /\ Returned'
                   /\ result' = FALSE ]_vars

\* C18, witness: mask_data has returned False for an input that is no JSON,
\* and the file of an earlier run is still at output_file
C18_Witness ==
    /\ pc = "mask_data: returned"
    /\ input_file.kind = "invalid"
    /\ result = FALSE
    /\ output_file.kind = "old"

\* clean_parsed_data has returned False for a missing input, and there is
\* still no output file
C18_WitnessClean ==
    /\ pc = "clean_parsed_data: returned"
    /\ input_file.kind = "missing"
    /\ result = FALSE
    /\ output_file.kind = "missing"

(***************************************************************************)
(* C19                                                                     *)
(***************************************************************************)
\* the fields that masking may change
MaskedFields == { "transcript", "resolution", "impact", "root_cause", "call_id" }

\* masked has the keys of transcript, and the values of transcript but in
\* the fields that masking may change
Frame(transcript, masked_record) ==
    /\ DOMAIN masked_record = DOMAIN transcript
    /\ \A f \in DOMAIN transcript \ MaskedFields : masked_record[f] = transcript[f]

\* C19: the turn of mask_data that masks a record leaves every field of the
\* record but transcript, resolution, impact, root_cause and call_id as it
\* is in the masked record, and leaves the input record as it was.
C19_MaskingFrame ==
    [][ MaskDataTurn =>
          /\ Frame(Transcripts(input_file)[Len(masked_transcripts) + 1],
                   masked_transcripts'[Len(masked_transcripts) + 1])
          /\ input_file' = input_file ]_vars

\* C19, witness: a record has been masked whose call_id and transcript have
\* changed, and whose category, which holds a word of eleven letters as an
\* account number does, has not
C19_Witness ==
    /\ pc = "mask_data: loop"
    /\ \E k \in 1..Len(masked_transcripts) :
           /\ Transcripts(input_file)[k] = BatchRecords[2]
           /\ masked_transcripts[k].call_id # BatchRecords[2].call_id
           /\ masked_transcripts[k].transcript # BatchRecords[2].transcript
           /\ masked_transcripts[k].category = << "P", "r", "o", "m", "o", "t", "i", "o", "n", "a", "l", " ", "O", "f", "f", "e", "r", "s" >>
           /\ masked_transcripts[k].raw_text_length = 350

(***************************************************************************)
(* C20                                                                     *)
(***************************************************************************)
\* the number of places at which sub occurs in s
Occurrences(s, sub) ==
    Cardinality({ k \in 1..(Len(s) - Len(sub) + 1) : SubSeq(s, k, k + Len(sub) - 1) = sub })

\* the text after the patterns of the first t categories have been applied
RECURSIVE AfterTypes(_, _)
AfterTypes(field_text, t) ==
    IF t = 0 THEN field_text
    ELSE Then(AfterTypes(field_text, t - 1), LAMBDA before :
              ApplyPatterns([ text |-> before, counts |-> ZeroCounts ], pii_types[t], 1).text)

\* the number of substrings that the patterns of the t-th category replace in
\* the text of a field: the placeholders of the category that its pass adds
ReplacedIn(field_text, t) ==
    Occurrences(AfterTypes(field_text, t), replacements[pii_types[t]])
      - Occurrences(AfterTypes(field_text, t - 1), replacements[pii_types[t]])

\* the same, summed over the fields from the k-th on that the record has
RECURSIVE ReplacedFrom(_, _, _)
ReplacedFrom(transcript, t, k) ==
    IF k > Len(fields_to_mask) THEN 0
    ELSE (IF fields_to_mask[k] \in DOMAIN transcript
          THEN ReplacedIn(transcript[fields_to_mask[k]], t) ELSE 0)
         + ReplacedFrom(transcript, t, k + 1)

\* and summed over the records of the batch
RECURSIVE ReplacedInBatch(_, _)
ReplacedInBatch(batch, t) ==
    IF batch = << >> THEN 0
    ELSE ReplacedFrom(Head(batch), t, 1) + ReplacedInBatch(Tail(batch), t)

\* the counts are those of the substrings replaced in the batch
Tally(counts, batch) ==
    \A t \in 1..Len(pii_types) : counts[pii_types[t]] = ReplacedInBatch(batch, t)

\* C20: at every turn of mask_data the counts of the batch are, for each
\* category, the number of substrings that the patterns of the category have
\* replaced in the transcript, resolution, impact and root_cause of the
\* records masked so far; pii_removed in the metadata written is that sum
\* over all records; what the telecom pass replaces and what is found in a
\* call_id is in no count.
C20_TallyAccounting ==
    /\ pc = "mask_data: loop" =>
           Tally(pii_stats, SubSeq(Transcripts(input_file), 1, Len(masked_transcripts)))
    /\ (pc = "mask_data: returned" /\ result = TRUE) =>
           Tally(output_file.metadata.pii_removed, Transcripts(input_file))

\* C20, witness: a batch of the record with two phone numbers, an e-mail
\* address and a port request and of the record with a phone number as its
\* call_id has been written: three phone numbers, one e-mail address and one
\* account number are counted, the port request and the call_id are masked
\* and not counted
C20_Witness ==
    /\ pc = "mask_data: returned"
    /\ result = TRUE
    /\ Transcripts(input_file) = << BatchRecords[1], BatchRecords[2] >>
    /\ output_file.metadata.pii_removed =
           [ ZeroCounts EXCEPT !.phone_numbers = 3, !.emails = 1, !.account_numbers = 1 ]
    /\ output_file.transcripts[1].resolution = << "[", "P", "O", "R", "T", "_", "R", "E", "Q", "U", "E", "S", "T", "_", "I", "D", "]" >>
    /\ output_file.transcripts[2].call_id = << "C", "A", "L", "L", " ", "[", "P", "H", "O", "N", "E", "_", "N", "U", "M", "B", "E", "R", "]" >>
(***************************************************************************)
(* Cleaning a record, and cleaning the cleaned record again                *)
(***************************************************************************)
\* the fields that _clean_single_transcript normalizes, the transcript apart
NormalizedFields == { "category", "severity", "journey_type", "date", "resolution", "impact" }

\* raw values with a date and with the labels of other fields
LabelledValues ==
    { << "o", "n", " ", "A", "u", "g", "u", "s", "t", " ", "1", ",", " ", "2", "0", "2", "4", " ", "a", "t", " ", "8", "/", "1", "/", "2", "0", "2", "4" >>, << "f", "i", "x", "e", "d", " ", "I", "m", "p", "a", "c", "t", ":", " ", "n", "o", "n", "e" >>,
      << "l", "o", "s", "t", " ", "R", "o", "o", "t", " ", "C", "a", "u", "s", "e", ":", " ", "x", " ", "R", "e", "s", "o", "l", "u", "t", "i", "o", "n", ":", " ", "y" >> }

\* the records handed to the cleaner: one field with a raw value, the others
\* as the parser fills them when it finds nothing
RawRecords ==
    { [ Rec(<< "T", "W", "_", "W", "E", "B", "_", "0", "0", "1" >>, << >>, << "h", "e", "l", "l", "o" >>, << >>, << >>) EXCEPT ![field] = value ] :
        field \in NormalizedFields, value \in RawValues(MaxRawWords) \cup LabelledValues }

InitReclean ==
    /\ pc = "record"
    /\ record \in RawRecords
    /\ call_number = 1
    /\ text = Idle
    /\ raw = Idle
    /\ normalized = Idle
    /\ cleaned = Idle
    /\ NoMask /\ NoParse /\ NoBatch /\ NoWeb /\ NoFile /\ NoDisk

\* cleaned = self._clean_single_transcript(transcript), for a transcript that
\* is a cleaned one: record becomes the cleaned record, cleaned what cleaning
\* it again returns
CleanAgain ==
    /\ pc = "cleaned_record"
    /\ record' = cleaned
    /\ cleaned' = _clean_single_transcript(cleaned)
    /\ pc' = "cleaned_again"
    /\ UNCHANGED << text, call_number, raw, normalized, maskVars, parseVars, batchVars, webVars, fileVars, diskVars >>

NextReclean == CleanSingleTranscript \/ CleanAgain

SpecReclean == InitReclean /\ [][NextReclean]_vars

(***************************************************************************)
(* C27: normalization is idempotent                                        *)
(***************************************************************************)
\* C27: cleaning a cleaned record again changes none of category, severity,
\* journey_type, date, resolution and impact
C27_Idempotent ==
    pc = "cleaned_again" => \A field \in NormalizedFields : cleaned[field] = record[field]

\* C27, the part that holds: cleaning again changes none of severity,
\* journey_type, date, resolution and impact
C27_IdempotentButCategory ==
    pc = "cleaned_again" =>
        \A field \in NormalizedFields \ { "category" } : cleaned[field] = record[field]

\* C27: the category 'high low' was cleaned to 'high', and cleaning again has
\* made it 'Unknown'
C27_CategoryChangedAgain ==
    /\ pc = "cleaned_again"
    /\ record.category = << "h", "i", "g", "h" >>
    /\ cleaned.category = Unknown

(***************************************************************************)
(* parse_pdf: the document parsed, and what the caller gets                *)
(***************************************************************************)
InitParsePdf ==
    /\ pc = "separators"
    /\ content \in PipelineDocs
    /\ i = 1
    /\ calls = << >>
    /\ best_split = 0
    /\ parsed_calls = << >>
    /\ result = Idle
    /\ input_file = Idle
    /\ output_file = Idle
    /\ pii_stats = Idle
    /\ text = Idle
    /\ NoMask /\ NoExtract /\ NoBatch /\ NoWeb /\ NoClean /\ NoDisk

\* parsed_call = self._parse_single_call(call_text, i + 1) raises: the loop
\* of _parse_text_content has no handler, the exception leaves it
ParseCallRaises ==
    /\ pc = "sections"
    /\ i <= Len(calls)
    /\ ~TooShort(calls[i])
    /\ pc' = "parse_pdf: except"
    /\ UNCHANGED << text, maskVars, extractVars, parseVars, batchVars, webVars, cleanVars, fileVars, diskVars >>

\* parse_pdf: except Exception as e: print(...); return []
ParsePdfExcept ==
    /\ pc = "parse_pdf: except"
    /\ result' = << >>
    /\ pc' = "parse_pdf: returned"
    /\ UNCHANGED << text, input_file, output_file, pii_stats, maskVars, extractVars, parseVars, batchVars, webVars, cleanVars, diskVars >>

\* parse_pdf: parsed_calls = self._parse_text_content(pdf_text); return parsed_calls
ParsePdfReturn ==
    /\ pc = "parsed"
    /\ result' = parsed_calls
    /\ pc' = "parse_pdf: returned"
    /\ UNCHANGED << text, input_file, output_file, pii_stats, maskVars, extractVars, parseVars, batchVars, webVars, cleanVars, diskVars >>

NextParsePdf ==
    \/ TrySeparator \/ AfterSeparators \/ ParseCall \/ ParseCallRaises
    \/ ParsePdfExcept \/ ParsePdfReturn

SpecParsePdf == InitParsePdf /\ [][NextParsePdf]_vars

(***************************************************************************)
(* C17                                                                     *)
(***************************************************************************)
\* the extraction of section i has raised
Raised == pc = "parse_pdf: returned" /\ i <= Len(calls)

\* the records of the sections from the k-th on but the one that raised
RECURSIVE OtherRecords(_)
OtherRecords(k) ==
    IF k > Len(calls) THEN << >>
    ELSE (IF k = i \/ TooShort(calls[k]) THEN << >>
          ELSE << _parse_single_call(calls[k], k) >>)
         \o OtherRecords(k + 1)

\* C17 (as stated): when the extraction of one section raises, that section
\* is skipped and the record of every other section is returned; the parser
\* does not return an empty batch for one such section.
C17_SectionIsolation == Raised => result = OtherRecords(1)

\* the second of two sections has raised after the first was extracted, and
\* parse_pdf has returned the empty list
C17_BatchLost ==
    /\ Raised
    /\ Len(calls) = 2
    /\ i = 2
    /\ Len(parsed_calls) = 1
    /\ result = << >>
(***************************************************************************)
(* The stages run again and again on the files of data/processed           *)
(***************************************************************************)
\* the seconds the clock runs through
MaxNow == 2

\* the path of the batch of a stage: 'data/processed/<stage>_transcripts.json'
\* of the stage drivers when stamp is 0, and upload_transcripts'
\* f'data/processed/temp_<stage>_{stamp}.json' otherwise
Path(stage, stamp) == << stage, stamp >>
Paths == { Path(stage, stamp) : stage \in { "parsed", "cleaned", "masked" }, stamp \in 0..MaxNow }

\* temp_parsed.replace('parsed', stage)
Replaced_parsed(path, stage) == IF path[1] = "parsed" THEN Path(stage, path[2]) ELSE path

\* the record with another channel
OnChannel(r, channel) == [ r EXCEPT !.channel = channel ]

\* what a parser hands to save_parsed_data: the records of one document
ParsedData ==
    { << Rec(<< "T", "W", "_", "W", "E", "B", "_", "0", "0", "1" >>, << "P", "l", "a", "n", " ", "C", "h", "a", "n", "g", "e" >>, << "C", "a", "l", "l", " ", "5", "5", "5", "1", "2", "3", "4", "5", "6", "7" >>, << >>, << >>) >>,
      << OnChannel(Rec(<< "T", "W", "_", "A", "P", "P", "_", "0", "0", "2" >>, << "B", "i", "l", "l", "i", "n", "g" >>, << "h", "e", "l", "l", "o" >>, << >>, << >>), << "P", "h", "o", "n", "e" >>),
         Rec(<< "T", "W", "_", "W", "E", "B", "_", "0", "0", "3" >>, << >>, << "m", "a", "i", "l", " ", "a", "@", "b", ".", "c", "o" >>, << >>, << >>) >> }

Missing == [ kind |-> "missing" ]

InitRuns ==
    /\ pc = "idle"
    /\ files = [ p \in Paths |-> Missing ]
    /\ now = 1
    /\ temp_parsed = Idle
    /\ result = Idle
    /\ requests = Idle /\ responses = Idle /\ generated_test_cases = Idle
    /\ input_file = Idle /\ output_file = Idle /\ pii_stats = Idle
    /\ text = Idle
    /\ NoMask /\ NoExtract /\ NoParse /\ NoBatch /\ NoWeb /\ NoClean

\* save_parsed_data, lines 244-252: the batch that is written
output_data(parsed_data, at) ==
    [ kind        |-> "object",
      metadata    |-> [ total_transcripts |-> Len(parsed_data),
                        parsed_at         |-> at,
                        channels          |-> channels(parsed_data),
                        categories        |-> categories(parsed_data) ],
      transcripts |-> parsed_data ]

\* save_parsed_data: the files after the call
save_parsed_data(fs, parsed_data, output_path, at) ==
    [ fs EXCEPT ![output_path] = output_data(parsed_data, at) ]

\* the call of clean_parsed_data or of mask_data on file returns True
Succeeds(file) ==
    /\ Loads(file)
    /\ \A k \in 1..Len(Transcripts(file)) : ~NoCallId(Transcripts(file)[k])

\* clean_parsed_data, lines 32-35: the loop
CleanedAll(transcripts) ==
    [ k \in 1..Len(transcripts) |-> _clean_single_transcript(transcripts[k]) ]

\* clean_parsed_data: the files after the call
clean_parsed_data(fs, input, output) ==
    IF Succeeds(fs[input])
    THEN [ fs EXCEPT ![output] = cleaned_data(fs[input], CleanedAll(Transcripts(fs[input]))) ]
    ELSE [ fs EXCEPT ![output] = Failed(fs[output]) ]

\* mask_data, lines 82-93: the loop, after n turns
RECURSIVE MaskedAll(_, _)
MaskedAll(transcripts, n) ==
    IF n = 0 THEN [ masked_transcripts |-> << >>, pii_stats |-> ZeroCounts ]
    ELSE Then(MaskedAll(transcripts, n - 1), LAMBDA before :
         Then(_mask_single_transcript(transcripts[n]), LAMBDA r :
              [ masked_transcripts |-> Append(before.masked_transcripts, r.masked),
                pii_stats          |-> AddCounts(before.pii_stats, r.pii_found) ]))

\* mask_data: the files after the call
mask_data(fs, input, output) ==
    IF Succeeds(fs[input])
    THEN Then(MaskedAll(Transcripts(fs[input]), Len(Transcripts(fs[input]))), LAMBDA m :
              [ fs EXCEPT ![output] = masked_data(fs[input], m.masked_transcripts, m.pii_stats) ])
    ELSE [ fs EXCEPT ![output] = Failed(fs[output]) ]

\* os.remove(path) if os.path.exists(path)
Removed(fs, path) == [ fs EXCEPT ![path] = Missing ]

\* a second passes
Tick ==
    /\ now < MaxNow
    /\ now' = now + 1
    /\ UNCHANGED << pc, text, files, temp_parsed, requests, responses, generated_test_cases,
                    maskVars, extractVars, parseVars, batchVars, webVars, cleanVars, fileVars >>

\* test_pdf_parser, lines 334-352: the document is parsed and the batch saved
test_pdf_parser ==
    /\ pc = "idle"
    /\ \E parsed_data \in ParsedData :
          files' = save_parsed_data(files, parsed_data, Path("parsed", 0), now)
    /\ result' = TRUE
    /\ UNCHANGED << pc, text, now, temp_parsed, requests, responses, generated_test_cases,
                    input_file, output_file, pii_stats,
                    maskVars, extractVars, parseVars, batchVars, webVars, cleanVars >>

\* test_data_cleaner, lines 276-285
test_data_cleaner ==
    /\ pc = "idle"
    /\ files' = clean_parsed_data(files, Path("parsed", 0), Path("cleaned", 0))
    /\ result' = Succeeds(files[Path("parsed", 0)])
    /\ UNCHANGED << pc, text, now, temp_parsed, requests, responses, generated_test_cases,
                    input_file, output_file, pii_stats,
                    maskVars, extractVars, parseVars, batchVars, webVars, cleanVars >>

\* test_pii_masker, lines 256-265
test_pii_masker ==
    /\ pc = "idle"
    /\ files' = mask_data(files, Path("cleaned", 0), Path("masked", 0))
    /\ result' = Succeeds(files[Path("cleaned", 0)])
    /\ UNCHANGED << pc, text, now, temp_parsed, requests, responses, generated_test_cases,
                    input_file, output_file, pii_stats,
                    maskVars, extractVars, parseVars, batchVars, webVars, cleanVars >>

\* upload_transcripts, lines 338-349: the upload is parsed and the batch saved
UploadSave ==
    /\ pc = "idle"
    /\ temp_parsed' = Path("parsed", now)
    /\ \E parsed_data \in ParsedData :
          files' = save_parsed_data(files, parsed_data, Path("parsed", now), now)
    /\ pc' = "upload: clean"
    /\ UNCHANGED << text, now, requests, responses, generated_test_cases,
                    maskVars, extractVars, parseVars, batchVars, webVars, cleanVars, fileVars >>

\* upload_transcripts, lines 351-353
UploadClean ==
    /\ pc = "upload: clean"
    /\ files' = clean_parsed_data(files, temp_parsed, Replaced_parsed(temp_parsed, "cleaned"))
    /\ pc' = "upload: mask"
    /\ UNCHANGED << text, now, temp_parsed, requests, responses, generated_test_cases,
                    maskVars, extractVars, parseVars, batchVars, webVars, cleanVars, fileVars >>

\* upload_transcripts, lines 355-357
UploadMask ==
    /\ pc = "upload: mask"
    /\ files' = mask_data(files, Replaced_parsed(temp_parsed, "cleaned"),
                          Replaced_parsed(temp_parsed, "masked"))
    /\ pc' = "upload: remove"
    /\ UNCHANGED << text, now, temp_parsed, requests, responses, generated_test_cases,
                    maskVars, extractVars, parseVars, batchVars, webVars, cleanVars, fileVars >>

\* upload_transcripts, lines 359-362: the temp files are removed
UploadRemove ==
    /\ pc = "upload: remove"
    /\ files' = Removed(Removed(files, temp_parsed), Replaced_parsed(temp_parsed, "cleaned"))
    /\ pc' = "idle"
    /\ UNCHANGED << text, now, temp_parsed, requests, responses, generated_test_cases,
                    maskVars, extractVars, parseVars, batchVars, webVars, cleanVars, fileVars >>

NextRuns ==
    \/ Tick
    \/ test_pdf_parser \/ test_data_cleaner \/ test_pii_masker
    \/ UploadSave \/ UploadClean \/ UploadMask \/ UploadRemove

SpecRuns == InitRuns /\ [][NextRuns]_vars

(***************************************************************************)
(* C22: batch immutability                                                 *)
(***************************************************************************)
\* the file at path is there
Exists(fs, path) == fs[path].kind # "missing"

\* C22: every run of a stage writes its batch as a new artifact: a batch
\* that has been written is never overwritten, modified or removed by a
\* later step of any run
C22_BatchImmutability ==
    [][\A path \in Paths : Exists(files, path) => files'[path] = files[path]]_vars

\* C22, the part that holds: a run that writes leaves every file other than
\* its output as it was, unless it is the upload route removing its temp files
C22_OnlyOutputWritten ==
    [][pc # "upload: remove" =>
         Cardinality({ path \in Paths : files'[path] # files[path] }) <= 1]_vars

\* C22: the batch of an earlier run of test_pdf_parser has been overwritten by
\* a later one
C22_Overwritten ==
    /\ pc = "idle"
    /\ now = 2
    /\ Exists(files, Path("parsed", 0))
    /\ files[Path("parsed", 0)].metadata.parsed_at = 2
    /\ Exists(files, Path("cleaned", 0))
    /\ files[Path("cleaned", 0)].metadata.cleaned_at = 1
(***************************************************************************)
(* The three stages in a row, as upload_transcripts runs them              *)
(***************************************************************************)
\* the records a parser hands over: on two channels, with and without a
\* category, with and without personal data
StageRecords ==
    << Rec(<< "T", "W", "_", "W", "E", "B", "_", "0", "0", "1" >>, << "P", "l", "a", "n", " ", "C", "h", "a", "n", "g", "e" >>, << "C", "a", "l", "l", " ", "5", "5", "5", "1", "2", "3", "4", "5", "6", "7" >>, << >>, << >>),
       OnChannel(Rec(<< "T", "W", "_", "A", "P", "P", "_", "0", "0", "2" >>, << "b", "i", "l", "l", "i", "n", "g", " ", "h", "i", "g", "h", " ", "l", "o", "w" >>, << "h", "e", "l", "l", "o" >>, << >>, << >>), << "P", "h", "o", "n", "e" >>),
       Rec(<< "T", "W", "_", "W", "E", "B", "_", "0", "0", "3" >>, << >>, << "m", "a", "i", "l", " ", "a", "@", "b", ".", "c", "o" >>, << "d", "o", "n", "e", " ", "I", "m", "p", "a", "c", "t", ":", " ", "n", "o", "n", "e" >>, << >>),
       OnChannel(Rec(<< "T", "W", "_", "S", "M", "S", "_", "0", "0", "4" >>, << "P", "l", "a", "n", " ", "C", "h", "a", "n", "g", "e" >>, << "o", "k" >>, << >>, << >>), << "S", "M", "S" >>) >>

\* the parsed batches of at most n records
RECURSIVE StageBatches(_)
StageBatches(n) ==
    IF n = 0 THEN { << >> }
    ELSE StageBatches(n - 1)
         \cup { b \o << StageRecords[k] >> : b \in StageBatches(n - 1), k \in 1..Len(StageRecords) }

InitStages ==
    /\ pc = "save_parsed_data"
    /\ parsed_calls \in StageBatches(MaxRecords) \ { << >> }
    /\ now \in 1..MaxNow
    /\ input_file = Idle
    /\ output_file = Missing
    /\ result = Idle
    /\ pii_stats = Idle
    /\ content = Idle /\ i = 0 /\ calls = Idle /\ best_split = 0
    /\ files = Idle /\ temp_parsed = Idle
    /\ requests = Idle /\ responses = Idle /\ generated_test_cases = Idle
    /\ text = Idle
    /\ NoMask /\ NoExtract /\ NoBatch /\ NoWeb /\ NoClean

\* upload_transcripts, line 349: parser.save_parsed_data(parsed_data, temp_parsed)
SaveParsedData ==
    /\ pc = "save_parsed_data"
    /\ output_file' = output_data(parsed_calls, now)
    /\ result' = TRUE
    /\ pc' = "save_parsed_data: returned"
    /\ UNCHANGED << text, input_file, pii_stats, batchVars, maskVars, extractVars, parseVars,
                    webVars, cleanVars, diskVars >>

\* upload_transcripts, lines 351-353: the parsed batch is the input of
\* clean_parsed_data, which writes to another path
CleanParsed ==
    /\ pc = "save_parsed_data: returned"
    /\ input_file' = output_file
    /\ output_file' = Missing
    /\ result' = Idle
    /\ pc' = "clean_parsed_data"
    /\ UNCHANGED << text, pii_stats, batchVars, maskVars, extractVars, parseVars,
                    webVars, cleanVars, diskVars >>

\* upload_transcripts, lines 355-357: the cleaned batch is the input of
\* mask_data, which writes to another path
MaskCleaned ==
    /\ pc = "clean_parsed_data: returned"
    /\ input_file' = output_file
    /\ output_file' = Missing
    /\ result' = Idle
    /\ pc' = "mask_data"
    /\ UNCHANGED << text, pii_stats, batchVars, maskVars, extractVars, parseVars,
                    webVars, cleanVars, diskVars >>

NextStages ==
    \/ SaveParsedData \/ CleanParsed \/ MaskCleaned
    \/ CleanDataLoad \/ CleanDataTurn \/ CleanDataSave
    \/ MaskDataLoad \/ MaskDataTurn \/ MaskDataSave

SpecStages == InitStages /\ [][NextStages]_vars

(***************************************************************************)
(* C25: the shape of the batch across the stages                           *)
(***************************************************************************)
\* a stage has returned True
Written ==
    /\ pc \in { "save_parsed_data: returned", "clean_parsed_data: returned", "mask_data: returned" }
    /\ result = TRUE

\* the values of field in the records, the empty one apart
ValuesOf(transcripts, field) ==
    { transcripts[k][field] : k \in 1..Len(transcripts) } \ { << >> }

\* the metadata of the batch agree with its records
ShapeHolds(batch) ==
    /\ batch.metadata.total_transcripts = Len(batch.transcripts)
    /\ batch.metadata.channels = ValuesOf(batch.transcripts, "channel")
    /\ batch.metadata.categories = ValuesOf(batch.transcripts, "category")

\* C25: the batch a stage has written has metadata.total_transcripts equal
\* to the number of its records and metadata channels and categories equal
\* to the sets of the channels and of the non-empty categories of its
\* records; the clean and the mask stage write as many records as they read,
\* the i-th written being the i-th read, cleaned or masked
C25_BatchShape ==
    Written =>
        /\ ShapeHolds(output_file)
        /\ pc = "save_parsed_data: returned" => output_file.transcripts = parsed_calls
        /\ pc = "clean_parsed_data: returned" =>
              /\ Len(output_file.transcripts) = Len(input_file.transcripts)
              /\ \A k \in 1..Len(input_file.transcripts) :
                    output_file.transcripts[k] = _clean_single_transcript(input_file.transcripts[k])
        /\ pc = "mask_data: returned" =>
              /\ Len(output_file.transcripts) = Len(input_file.transcripts)
              /\ \A k \in 1..Len(input_file.transcripts) :
                    output_file.transcripts[k] = _mask_single_transcript(input_file.transcripts[k]).masked

\* C25: the mask stage has written a batch of two records on two channels,
\* one of them without category and with a masked e-mail address
C25_Witness ==
    /\ Written
    /\ pc = "mask_data: returned"
    /\ Len(output_file.transcripts) = 2
    /\ Cardinality(output_file.metadata.channels) = 2
    /\ Cardinality(output_file.metadata.categories) = 1
    /\ output_file.transcripts[1].call_id = << "T", "W", "_", "W", "E", "B", "_", "0", "0", "3" >>
    /\ output_file.transcripts[2].call_id = << "T", "W", "_", "A", "P", "P", "_", "0", "0", "2" >>
    /\ parsed_calls[2].category # output_file.transcripts[2].category
(***************************************************************************)
(* /api/ask_question in concurrent requests, and /generate                 *)
(***************************************************************************)
\* the requests to /api/ask_question that the server handles at a time
MaxThreads == 2
Threads == 1..MaxThreads

\* the ids of the test cases: f"TC_{channel_short}_{index:03d}", the same in
\* every generation from the same transcripts
TestCaseIds == { "TC_WEB_001", "TC_APP_001" }

\* a test case as /generate writes it: no conversation yet
TestCase(id) == [ test_case_id |-> id, conversation_history |-> << >> ]

\* the test cases of one generation
Generations ==
    { << TestCase("TC_WEB_001") >>, << TestCase("TC_APP_001") >>,
      << TestCase("TC_WEB_001"), TestCase("TC_APP_001") >> }

\* the files f'test_cases_{request_id}.json' of data/output, by request_id
Stamps == 1..MaxNow

\* a request to /api/ask_question that has not begun
NewRequest(id) ==
    [ pc |-> "ask_question", test_case_id |-> id, conversation_history |-> << >>,
      response |-> << >>, file_path |-> 0, data |-> << >>, status |-> 0 ]

InitAsk ==
    /\ pc = "serving"
    /\ now = 1
    /\ \E g \in Generations :
          files = [ s \in Stamps |-> IF s = 1 THEN [ kind |-> "object", test_cases |-> g ] ELSE Missing ]
    /\ requests \in [ Threads -> { NewRequest(id) : id \in TestCaseIds } ]
    /\ temp_parsed = Idle /\ responses = Idle /\ generated_test_cases = Idle
    /\ text = Idle
    /\ NoMask /\ NoExtract /\ NoParse /\ NoBatch /\ NoWeb /\ NoClean /\ NoFile

\* latest_file = sorted(test_case_files)[-1]; 0 when there is no file
latest_file(fs) ==
    IF \A s \in Stamps : ~Exists(fs, s) THEN 0
    ELSE CHOOSE s \in Stamps : Exists(fs, s) /\ \A other \in Stamps : Exists(fs, other) => other <= s

\* for tc in test_cases: if tc.get('test_case_id') == test_case_id: the index
\* of the first such tc, 0 when there is none
FindTestCase(test_cases, test_case_id) ==
    IF \A k \in 1..Len(test_cases) : test_cases[k].test_case_id # test_case_id THEN 0
    ELSE CHOOSE k \in 1..Len(test_cases) :
             /\ test_cases[k].test_case_id = test_case_id
             /\ \A j \in 1..(k - 1) : test_cases[j].test_case_id # test_case_id

\* tc['conversational_data']['conversation_history'].append(conversation_entry)
\* for the first tc with the id, if there is one
WithEntry(test_cases, k, conversation_entry) ==
    IF k = 0 THEN test_cases
    ELSE [ test_cases EXCEPT ![k].conversation_history = Append(@, conversation_entry) ]

\* ask_question, lines 501-524: the test case is loaded from the latest file
\* and the question answered
AskLoaded(r, latest, k) ==
    IF latest = 0 \/ k = 0
    THEN requests' = [ requests EXCEPT ![r].pc = "returned", ![r].status = 404 ]
    ELSE requests' = [ requests EXCEPT
                         ![r].conversation_history = files[latest].test_cases[k].conversation_history,
                         ![r].response = [ question_of |-> r ],
                         ![r].pc = "save_conversation_to_test_case" ]

AskLoad(r) ==
    /\ requests[r].pc = "ask_question"
    /\ AskLoaded(r, latest_file(files),
                 IF latest_file(files) = 0 THEN 0
                 ELSE FindTestCase(files[latest_file(files)].test_cases, requests[r].test_case_id))
    /\ UNCHANGED << pc, text, files, now, temp_parsed, responses, generated_test_cases,
                    maskVars, extractVars, parseVars, batchVars, webVars, cleanVars, fileVars >>

\* save_conversation_to_test_case, lines 717-735: the latest file is read
SaveRead(r) ==
    /\ requests[r].pc = "save_conversation_to_test_case"
    /\ IF latest_file(files) = 0
       THEN requests' = [ requests EXCEPT ![r].pc = "returned", ![r].status = 500 ]
       ELSE requests' = [ requests EXCEPT
                            ![r].file_path = latest_file(files),
                            ![r].data = files[latest_file(files)],
                            ![r].pc = "save: write" ]
    /\ UNCHANGED << pc, text, files, now, temp_parsed, responses, generated_test_cases,
                    maskVars, extractVars, parseVars, batchVars, webVars, cleanVars, fileVars >>

\* save_conversation_to_test_case, lines 737-768, and ask_question, lines
\* 527-532: the entry is appended, the file written, success answered
SaveWrite(r) ==
    /\ requests[r].pc = "save: write"
    /\ files' = [ files EXCEPT ![requests[r].file_path] =
                    [ requests[r].data EXCEPT !.test_cases =
                        WithEntry(@, FindTestCase(@, requests[r].test_case_id), requests[r].response) ] ]
    /\ requests' = [ requests EXCEPT ![r].pc = "returned", ![r].status = 200 ]
    /\ UNCHANGED << pc, text, now, temp_parsed, responses, generated_test_cases,
                    maskVars, extractVars, parseVars, batchVars, webVars, cleanVars, fileVars >>

\* generate, lines 352-398: the test cases of a generation are written to
\* f'test_cases_{request_id}.json', request_id being a second of its own
Generate ==
    /\ ~Exists(files, now)
    /\ \E g \in Generations :
          files' = [ files EXCEPT ![now] = [ kind |-> "object", test_cases |-> g ] ]
    /\ UNCHANGED << pc, text, now, temp_parsed, requests, responses, generated_test_cases,
                    maskVars, extractVars, parseVars, batchVars, webVars, cleanVars, fileVars >>

NextAsk ==
    \/ \E r \in Threads : AskLoad(r) \/ SaveRead(r) \/ SaveWrite(r)
    \/ Generate
    \/ Tick

SpecAsk == InitAsk /\ [][NextAsk]_vars

(***************************************************************************)
(* C28: conversation persistence                                           *)
(***************************************************************************)
\* the request has been answered with success
Succeeded(r) == requests[r].pc = "returned" /\ requests[r].status = 200

\* the entries persisted in the file s for the test case
PersistedIn(s, test_case_id) ==
    IF ~Exists(files, s) \/ FindTestCase(files[s].test_cases, test_case_id) = 0 THEN {}
    ELSE Range(files[s].test_cases[FindTestCase(files[s].test_cases, test_case_id)].conversation_history)

\* C28: the entry of every request to /api/ask_question that was answered
\* with success is in the persisted conversation_history of its test case,
\* and stays there, whatever the interleaving with other such requests and
\* with /generate
C28_ConversationPersisted ==
    \A r \in Threads :
        Succeeded(r) =>
            \E s \in Stamps : requests[r].response \in PersistedIn(s, requests[r].test_case_id)

\* C28: two requests on the same test case have both been answered with
\* success, and the entry of one of them is in no file
C28_LostUpdate ==
    /\ \A s \in Stamps : s > 1 => ~Exists(files, s)
    /\ Succeeded(1) /\ Succeeded(2)
    /\ requests[1].test_case_id = requests[2].test_case_id
    /\ requests[1].response \notin PersistedIn(1, requests[1].test_case_id)
    /\ requests[2].response \in PersistedIn(1, requests[2].test_case_id)

\* C28: a request has been answered with success after /generate wrote a
\* newer file without its test case, and its entry is in no file
C28_SavedNowhere ==
    /\ Succeeded(1)
    /\ requests[2].pc = "ask_question"
    /\ requests[1].file_path = 2
    /\ \A s \in Stamps : requests[1].response \notin PersistedIn(s, requests[1].test_case_id)
(***************************************************************************)
(* ai_test_generator.py: GroqTestCaseGenerator.generate_test_cases         *)
(***************************************************************************)
\* the most transcripts in the input file
MaxTranscripts == 3

\* what the request to the LLM API comes to for one transcript: a response
\* with a test case in it, a response with another status than 200, an
\* exception raised by requests.post, a response without JSON in it
Outcomes == { "test case", "status 429", "timeout", "no json" }

\* the masked transcripts of the input file
MaskedTranscripts ==
    << [ call_id |-> "TW_WEB_001", channel |-> "Web Portal" ],
       [ call_id |-> "TW_APP_002", channel |-> "Mobile App" ],
       [ call_id |-> "TW_SMS_003", channel |-> "SMS/Bot/IVR" ],
       [ call_id |-> "TW_WEB_004", channel |-> "Web Portal" ] >>

\* what can be at input_file: nothing, text that is no JSON, a batch of the
\* first n transcripts
GeneratorInputs(n) ==
    { Missing, [ kind |-> "invalid" ] }
    \cup { [ kind |-> "object", transcripts |-> SubSeq(MaskedTranscripts, 1, k) ] : k \in 0..n }

InitGenerate ==
    /\ pc = "generate_test_cases"
    /\ input_file \in GeneratorInputs(MaxTranscripts)
    /\ output_file \in OutputFiles
    /\ responses \in [ 1..Len(Transcripts(input_file)) -> Outcomes ]
    /\ generated_test_cases = Idle
    /\ i = 0
    /\ result = Idle
    /\ pii_stats = Idle
    /\ content = Idle /\ calls = Idle /\ best_split = 0 /\ parsed_calls = Idle
    /\ files = Idle /\ now = 0 /\ temp_parsed = Idle /\ requests = Idle
    /\ text = Idle
    /\ NoMask /\ NoExtract /\ NoBatch /\ NoWeb /\ NoClean

\* return None
None == [ none |-> TRUE ]

\* _parse_ai_response, lines 271-282: the test case of the transcript
ParsedTestCase(transcript, index) ==
    [ test_case_id |-> << "TC", index >>, source_call_id |-> transcript.call_id,
      source_channel |-> transcript.channel ]

\* _generate_single_test_case(transcript, index), the request coming to
\* outcome: the test case, or None after an error status, after an exception
\* (caught by its own except) and after a response that cannot be parsed
_generate_single_test_case(transcript, index, outcome) ==
    IF outcome = "test case" THEN ParsedTestCase(transcript, index) ELSE None

\* generated_test_cases.append(test_case), None included
Generated_always(test_cases, test_case) == Append(test_cases, test_case)

\* if test_case: generated_test_cases.append(test_case)
Generated(test_cases, test_case) ==
    IF test_case # None THEN Append(test_cases, test_case) ELSE test_cases

\* generate_test_cases, lines 84-99: the input is loaded
GenerateLoad ==
    /\ pc = "generate_test_cases"
    /\ IF Loads(input_file)
       THEN /\ generated_test_cases' = << >>
            /\ i' = 0
            /\ pc' = "generate_test_cases: loop"
            /\ UNCHANGED << output_file, result >>
       ELSE /\ output_file' = Failed(output_file)
            /\ result' = FALSE
            /\ pc' = "generate_test_cases: returned"
            /\ UNCHANGED << generated_test_cases, i >>
    /\ UNCHANGED << text, input_file, pii_stats, content, calls, best_split, parsed_calls,
                    files, now, temp_parsed, requests, responses,
                    maskVars, extractVars, batchVars, webVars, cleanVars >>

\* generate_test_cases, lines 101-116: one turn of the loop
GenerateTurn ==
    /\ pc = "generate_test_cases: loop"
    /\ i < Len(Transcripts(input_file))
    /\ i' = i + 1
    /\ generated_test_cases' =
           Generated(generated_test_cases,
                     _generate_single_test_case(Transcripts(input_file)[i + 1], i + 1, responses[i + 1]))
    /\ UNCHANGED << pc, text, fileVars, content, calls, best_split, parsed_calls,
                    files, now, temp_parsed, requests, responses,
                    maskVars, extractVars, batchVars, webVars, cleanVars >>

\* generate_test_cases, lines 118-138: the test cases are written, if any
GenerateSave ==
    /\ pc = "generate_test_cases: loop"
    /\ i = Len(Transcripts(input_file))
    /\ IF generated_test_cases # << >>
       THEN /\ output_file' =
                   [ kind       |-> "object",
                     metadata   |-> [ total_test_cases |-> Len(generated_test_cases),
                                      success_rate |-> << Len(generated_test_cases),
                                                          Len(Transcripts(input_file)) >> ],
                     test_cases |-> generated_test_cases ]
            /\ result' = TRUE
       ELSE /\ result' = FALSE
            /\ UNCHANGED output_file
    /\ pc' = "generate_test_cases: returned"
    /\ UNCHANGED << text, input_file, pii_stats, parseVars, generated_test_cases,
                    files, now, temp_parsed, requests, responses,
                    maskVars, extractVars, batchVars, webVars, cleanVars >>

NextGenerate == GenerateLoad \/ GenerateTurn \/ GenerateSave

SpecGenerate == InitGenerate /\ [][NextGenerate]_vars

(***************************************************************************)
(* C29: a failed generation does not stop the others                       *)
(***************************************************************************)
\* the test cases of the first n transcripts whose request came to a test
\* case, in the order of the transcripts
RECURSIVE Successes(_)
Successes(n) ==
    IF n = 0 THEN << >>
    ELSE Successes(n - 1)
         \o (IF responses[n] = "test case"
             THEN << ParsedTestCase(Transcripts(input_file)[n], n) >> ELSE << >>)

\* C29: when generate_test_cases has returned for a loaded input, every
\* transcript has had its turn, whatever the requests before it came to; the
\* file is written and True returned exactly when a request came to a test
\* case, with total_test_cases the number of such requests and the test
\* cases in the order of the transcripts; otherwise False is returned and
\* the output file is as it was
C29_GenerationIsolation ==
    (pc = "generate_test_cases: returned" /\ Loads(input_file)) =>
        /\ i = Len(Transcripts(input_file))
        /\ IF Successes(Len(Transcripts(input_file))) # << >>
           THEN /\ result = TRUE
                /\ output_file.kind = "object"
                /\ output_file.test_cases = Successes(Len(Transcripts(input_file)))
                /\ output_file.metadata.total_test_cases =
                       Cardinality({ k \in DOMAIN responses : responses[k] = "test case" })
           ELSE /\ result = FALSE
                /\ output_file \in OutputFiles

\* C29: of three transcripts the request of the first raised an exception,
\* that of the second came to a test case, that of the third to an error
\* status; the file holds the test case of the second, True is returned
C29_Witness ==
    /\ pc = "generate_test_cases: returned"
    /\ Len(Transcripts(input_file)) = 3
    /\ responses = << "timeout", "test case", "status 429" >>
    /\ result = TRUE
    /\ output_file.metadata.total_test_cases = 1
    /\ output_file.test_cases[1].source_call_id = "TW_APP_002"

\* C29: no request of two came to a test case; False is returned and the
\* output file is still missing
C29_WitnessNone ==
    /\ pc = "generate_test_cases: returned"
    /\ Len(Transcripts(input_file)) = 2
    /\ result = FALSE
    /\ output_file = Missing
=============================================================================
